---- MODULE Spec2Model ----
(***************************************************************************)
(* Verification model of the masleka_bot per-client extraction pipeline.   *)
(*                                                                         *)
(* Part 1: the policy drill-down of saver_products_processor.py            *)
(*         (ProductDataProcessor._get_policy_data_for_number and the       *)
(*         helpers it calls) over the browser's window state.              *)
(* Part 2: PDFManager of post_popup_actions.py (download wait and claim)   *)
(*         over the download directory, which the browser writes to.       *)
(* Part 3: handle_post_popup_actions and ClientProcessor.process_client,   *)
(*         the batch loop and the per-client pipeline.                     *)
(***************************************************************************)
EXTENDS Integers, Sequences, FiniteSets, TLC

(***************************************************************************)
(* Bounds of the model.                                                    *)
(***************************************************************************)
\* number of drill-down attempts explored in one behaviour
MaxAttempts == 2
\* longest list of lines _click_specific_tabs returns
MaxTabLines == 1
\* timeout argument of wait_for_new_pdf_download, in seconds (the callers
\* pass DEFAULT_TIMEOUT)
WaitTimeout == 2
\* files the browser writes to the download directory in one behaviour
MaxFiles == 2
\* wait_for_new_pdf_download calls explored in one behaviour of SpecPdf
MaxWaitCalls == 2
\* longest identifier list handed to handle_post_popup_actions
MaxClients == 3

\* longest display name of the folder-naming specification
MaxNameLen == 2

\* elements the selectors match in one detail box, all passes together
MaxElems == 2

\* product rows of one client's listing
MaxRows == 2

\* detail boxes of one client's listing, all rows together
MaxBoxes == 2

\* elements the selectors of the product-details tab match on a page, in all
MaxTabElems == 2

\* policy links on a page
MaxLinks == 2

\* rows of the liens container of a policy page
MaxLienRows == 2

\* columns of the loans table of a policy page
MaxLoanCols == 3

\* data rows of the loans table of a policy page
MaxLoanRows == 1

\* polls a wait_for_element call makes before its timeout
MaxElemTimeout == 2

(***************************************************************************)
(* Values.                                                                 *)
(***************************************************************************)
\* Python's None for a window handle; real handles are 1, 2, ...
None == 0

\* policy numbers that detail boxes carry in 'element_4'
PolicyNumbers == {"555-1", "777"}

\* lines the two sub-tabs can yield (liens line, loans line)
TabLines == {<<"liens", "row">>, <<"loans", "row">>}

\* SLEEP_SHORT / SLEEP_INTERVAL: seconds between two polls of the directory
SLEEP_SHORT == 1

\* "no file": the None a wait or a claim returns
NoFile == <<>>

\* names the portal gives its generated reports; a file name is the sequence
\* of its parts, the last part being its suffix
DownloadStems == {"pitzuim", "tagmulim", "doh"}

\* the client folder and identifier the claims of SpecPdf are made for
HarnessFolder == <<"I", "D", "_", "1">>
HarnessId == <<"1">>

\* SLEEP_LONG: pause after each report attempt
SLEEP_LONG == 3

\* SLEEP_MEDIUM: pause between two clients
SLEEP_MEDIUM == 2

\* time.sleep(2) after the PDF-icon download was moved
SLEEP_AFTER_MOVE == 2

\* Optional[str] values of fullname_text
NoName == [isNone |-> TRUE, text |-> <<>>]

SomeName(t) == [isNone |-> FALSE, text |-> t]

\* display names the portal shows for a client (fullname_element.text)
DisplayNames == {NoName, SomeName(<<"J", "/", "D">>)}

\* the i-th identifier of a batch
Digits == <<"1", "2", "3", "4", "5", "6", "7", "8", "9">>

Identifier(i) == <<Digits[i]>>

\* no client folder
NoFolder == <<>>

\* the steps of one client's processing, in program order
StepOrder == <<"search", "name", "details", "tab", "reports", "products", "pdf_icon", "events">>

VARIABLES
    \* ---- browser session (selenium WebDriver) ----
    windows,          \* set of open window handles
    current,          \* handle the driver is focused on (not in windows: closed)
    nextHandle,       \* handle the next window.open will create
    \* ---- _get_policy_data_for_number ----
    dpc,              \* position in the function
    policy_number,    \* argument
    policy_data,      \* local list of lines
    new_window,       \* value returned by _navigate_back_to_main_page
    policy_link,      \* TRUE when _find_policy_link_by_number returned an element
    returned,         \* list returned by the last finished attempt
    attempts,         \* finished attempts
    \* ---- observations of the current/last attempt ----
    before_windows,   \* window handles when the attempt started
    before_current,   \* active window when the attempt started
    tab_created,      \* handle created by this attempt's window.open, or None
    closed_by_attempt,\* handles this attempt closed
    close_raised,     \* a driver.close() of this attempt raised
    failed_step,      \* step of the attempt that failed, "none" if none
    \* ---- clock and file system ----
    now,              \* time.time(), whole seconds
    download_dir,     \* files in DOWNLOAD_DIR: records [name, content]
    folders,          \* client folders that exist under DOWNLOAD_DIR
    client_files,     \* files in client folders: records [folder, name, content]
    nextFile,         \* content the browser's next download will have
    \* ---- PDFManager.wait_for_new_pdf_download ----
    wpc,              \* "idle", "loop" (inside the while), "ret" (returned)
    start_time,       \* local start_time
    initial_files,    \* local initial_files
    current_files,    \* local current_files of the last poll
    downloaded_pdf,   \* value returned: a file name or NoFile
    dir_at_call,      \* observation: names in the directory when the call started
    appeared,         \* observation: finished PDFs that appeared during the call
    \* ---- caller of SpecPdf: wait, claim, claim again ----
    hpc,              \* "idle", "waiting", "claimed", "claimed_again"
    wait_calls,       \* wait_for_new_pdf_download calls made
    claim_src,        \* source path of the last claim
    moved_pdf,        \* value the first claim returned
    moved_again,      \* value the second claim for the same source returned
    src_at_again,     \* observation: the source existed at the second claim
    \* ---- handle_post_popup_actions ----
    text_array,       \* argument: the identifiers
    bpc,              \* "start", "loop", "client", "done"
    index,            \* position of the loop in text_array (from 1)
    successful_count, \* local successful_count
    reported,         \* the "<count>/<total>" of the final log line, or <<>>
    batch_result,     \* return value: "none" until returned
    calls,            \* observation: identifiers process_client was called with
    results,          \* observation: what each process_client call returned
    searches,         \* observation: what each client's _search_client returned
    client_folder,    \* observation: folder created for each list position
    pending,          \* report requests the portal has not started writing
    \* ---- ClientProcessor.process_client ----
    cpc,              \* position in process_client
    identification_number,
    fullname_text,
    identification_folder,
    attempt,          \* loop variable i of _generate_pdf_reports
    client_ret,       \* value process_client is about to return
    steps,            \* observation: steps attempted for this client, in order
    failed_at,        \* observation: step a "return False" or a raise ended
                      \* this client at, "none" if none
    result_row,       \* the portal's table shows a row for the identifier
                      \* after the search
    \* ---- observations of the wait-and-claim steps of process_client ----
    claimed_log,      \* one record per successful move, in order
    left_unclaimed,   \* contents of the files that were in DOWNLOAD_DIR when
                      \* a wait-and-claim step ended
    \* ---- ClientProcessor._generate_pdf_reports ----
    pdf_button,       \* local pdf_button: TRUE when the element was found
    report_log,       \* observation: one record per _generate_single_report
                      \* call of the current client
    \* ---- process_saver_products_with_navigation ----
    saver_extracted,  \* local success: "none" until extraction returned
    saver_ret,        \* value the function returned, "none" before
    \* ---- observations of the browser and of the download triggers ----
    last_nav,         \* the last driver.get of the main window
    nav_at_search,    \* last_nav when each client's search step began
    triggers,         \* the step that requested the n-th download
    dir_at_click,     \* finished PDFs in DOWNLOAD_DIR at the trigger click of
                      \* the running wait-and-claim step
    \* ---- DetailBoxExtractor.extract_all_detail_box_data ----
    epc,              \* next extraction pass, "done" once returned
    box_elements,     \* the detail box: the elements each selector matches
    detail_data,      \* local dict detail_data, entries in insertion order
    failed_passes,    \* observation: passes whose find_elements raised
    \* ---- SaverProductsExtractor.extract_saver_products_data ----
    rpc,              \* position in the extraction of one client
    product_rows,     \* the listing: per row its name and its detail boxes
    row_index,        \* loop variable of _process_all_product_rows (from 1)
    detail_index,     \* loop variable of the detail-box loop (from 1)
    all_data,         \* local list of _process_detail_boxes_with_policies
    row_data,         \* local list extracted_data of process_product_row
    extracted_data,   \* local list of _process_all_product_rows
    drill_calls,      \* observation: policy numbers a drill-down was called for
    extract_ret,      \* value extract_saver_products_data returned
    \* ---- the page the drill-down's tab shows, and _click_specific_tabs ----
    page,             \* what the driver's element searches find on the page
    tpc,              \* position in _click_specific_tabs
    tabs_extracted,   \* local list extracted_data of _click_specific_tabs
    tabs_log,         \* observation: the steps _click_specific_tabs took
    \* ---- wait_for_element and its caller ----
    wfe_pc,           \* position in wait_for_element
    wfe_call,         \* the call: implementation, by, timeout (in polls)
    wfe_elapsed,      \* polls of WebDriverWait.until that found nothing
    wfe_ret,          \* "element", "None", or "raised"
    wfe_obs,          \* observation: what the call met
    caller_step       \* what the calling step does with the result

drillVars == <<windows, current, nextHandle, dpc, policy_number, policy_data,
               new_window, policy_link, returned, attempts, before_windows,
               before_current, tab_created, closed_by_attempt, close_raised,
               failed_step>>

fsVars == <<now, download_dir, folders, client_files, nextFile>>

waitVars == <<wpc, start_time, initial_files, current_files, downloaded_pdf,
              dir_at_call, appeared>>

harnessVars == <<hpc, wait_calls, claim_src, moved_pdf, moved_again,
                 src_at_again>>

batchVars == <<text_array, bpc, index, successful_count, reported,
               batch_result, calls, results, searches, client_folder, pending>>

clientVars == <<cpc, identification_number, fullname_text,
                identification_folder, attempt, client_ret, steps, failed_at,
                result_row>>

runObs == <<saver_extracted, saver_ret, last_nav, nav_at_search, triggers,
            dir_at_click>>

reportObs == <<pdf_button, report_log, runObs>>

claimObs == <<claimed_log, left_unclaimed, reportObs>>

extractVars == <<epc, box_elements, detail_data, failed_passes>>

rowVars == <<rpc, product_rows, row_index, detail_index, all_data, row_data,
             extracted_data, drill_calls, extract_ret>>

pageVars == <<page, tpc, tabs_extracted, tabs_log>>

\* the state of the product extraction, which the rest of the client's
\* processing leaves alone
elemVars == <<wfe_pc, wfe_call, wfe_elapsed, wfe_ret, wfe_obs, caller_step>>

productVars == <<extractVars, rowVars, pageVars, elemVars>>

\* everything the drill-down leaves alone
notDrillVars == <<fsVars, waitVars, harnessVars, batchVars, clientVars,
                  claimObs, productVars>>

\* everything the download wait and the browser's downloads leave alone
notPdfVars == <<drillVars, batchVars, clientVars, claimObs, productVars>>

vars == <<drillVars, fsVars, waitVars, harnessVars, batchVars, clientVars,
         claimObs, productVars>>

(***************************************************************************)
(* Helpers.                                                                *)
(***************************************************************************)
\* driver.window_handles: the WebDriver protocol returns the handles in an
\* unspecified order, so a read yields any ordering of the open windows.
WindowHandleOrders(ws) ==
    {s \in [1..Cardinality(ws) -> ws] :
        \A i, j \in 1..Cardinality(ws) : i # j => s[i] # s[j]}

\* the loop of lines 762-765: first handle that differs from original_window
FirstOtherHandle(order, original_window) ==
    IF \E i \in 1..Len(order) : order[i] # original_window
    THEN order[CHOOSE i \in 1..Len(order) :
                  /\ order[i] # original_window
                  /\ \A j \in 1..(i-1) : order[j] = original_window]
    ELSE None

\* f"מספר פוליסה: {policy_number}"
PolicyHeader(n) == <<"policy_header", n>>

AppendPolicyHeader_NoHeader(pd, n) == pd
\* policy_data.append(header), line 1006
AppendPolicyHeader(pd, n) == Append(pd, PolicyHeader(n))

\* policy_data.extend(tabs_data), line 1010
ExtendWithTabs(pd, tabs_data) == pd \o tabs_data

\* lists _click_specific_tabs can return: liens lines before loans lines
TabsDataLists ==
    {s \in UNION {[1..n -> TabLines] : n \in 0..MaxTabLines} :
        \A i, j \in 1..Len(s) : (i < j) => ~(s[i][1] = "loans" /\ s[j][1] = "liens")}

(***************************************************************************)
(* Initial state: one browser window, no drill-down running.               *)
(***************************************************************************)
InitDrillState ==
    /\ windows = {1}
    /\ current = 1
    /\ nextHandle = 2
    /\ dpc = "idle"
    /\ policy_number = "555-1"
    /\ policy_data = <<>>
    /\ new_window = None
    /\ policy_link = FALSE
    /\ returned = <<>>
    /\ attempts = 0
    /\ before_windows = {1}
    /\ before_current = 1
    /\ tab_created = None
    /\ closed_by_attempt = {}
    /\ close_raised = FALSE
    /\ failed_step = "none"

(***************************************************************************)
(* _get_policy_data_for_number, lines 980-1037                             *)
(***************************************************************************)
\* call: policy_data = []
GetPolicyDataStart(n) ==
    /\ dpc = "idle"
    /\ attempts < MaxAttempts
    /\ dpc' = "navigate"
    /\ policy_number' = n
    /\ policy_data' = <<>>
    /\ new_window' = None
    /\ policy_link' = FALSE
    /\ before_windows' = windows
    /\ before_current' = current
    /\ tab_created' = None
    /\ closed_by_attempt' = {}
    /\ close_raised' = FALSE
    /\ failed_step' = "none"
    /\ UNCHANGED <<windows, current, nextHandle, returned, attempts>>
    /\ UNCHANGED notDrillVars

\* _navigate_back_to_main_page, lines 741-789 (called at line 995).
\*   open   : "ok" the script opens a tab, "raise" execute_script raises,
\*            "nohandle" the script returns but no window appears
\*   order  : what driver.window_handles returns
\*   switchOk, getOk : whether switch_to.window / driver.get succeed
NavigateBackToMainPage(open, order, switchOk, getOk) ==
    /\ dpc = "navigate"
    /\ LET original_window == current
           ws == IF open = "ok" THEN windows \cup {nextHandle} ELSE windows
           nw == FirstOtherHandle(order, original_window)
       IN /\ order \in WindowHandleOrders(ws)
          /\ windows' = ws
          /\ nextHandle' = IF open = "ok" THEN nextHandle + 1 ELSE nextHandle
          /\ tab_created' = IF open = "ok" THEN nextHandle ELSE None
          /\ IF open = "raise"
             THEN \* except branch: switch back to original_window, return None
                  /\ current' = original_window
                  /\ new_window' = None
                  /\ failed_step' = "open"
             ELSE IF nw = None
             THEN \* "Could not find new tab"
                  /\ current' = current
                  /\ new_window' = None
                  /\ failed_step' = "open"
             ELSE IF ~switchOk
             THEN \* switch_to.window raised; except branch restores original
                  /\ current' = original_window
                  /\ new_window' = None
                  /\ failed_step' = "open"
             ELSE IF ~getOk
             THEN \* driver.get raised in the new tab; except branch switches
                  \* back to original_window and returns None
                  /\ current' = original_window
                  /\ new_window' = None
                  /\ failed_step' = "load"
             ELSE /\ current' = nw
                  /\ new_window' = nw
                  /\ failed_step' = failed_step
    /\ dpc' = IF new_window' # None THEN "click_tab" ELSE "return"
    /\ UNCHANGED <<policy_number, policy_data, policy_link, returned, attempts,
                   before_windows, before_current, closed_by_attempt,
                   close_raised>>
    /\ UNCHANGED notDrillVars

\* _click_product_details_tab, lines 830-901 (line 997): True/False, never raises
ClickProductDetailsTab(found) ==
    /\ dpc = "click_tab"
    /\ dpc' = IF found THEN "find_link" ELSE "close"
    /\ failed_step' = IF found THEN failed_step ELSE "tab"
    /\ UNCHANGED <<windows, current, nextHandle, policy_number, policy_data,
                   new_window, policy_link, returned, attempts, before_windows,
                   before_current, tab_created, closed_by_attempt, close_raised>>
    /\ UNCHANGED notDrillVars

\* _find_policy_link_by_number, lines 792-827 (line 998): element or None
FindPolicyLinkByNumber(found) ==
    /\ dpc = "find_link"
    /\ policy_link' = found
    /\ dpc' = IF found THEN "click_link" ELSE "close"
    /\ failed_step' = IF found THEN failed_step ELSE "link"
    /\ UNCHANGED <<windows, current, nextHandle, policy_number, policy_data,
                   new_window, returned, attempts, before_windows,
                   before_current, tab_created, closed_by_attempt, close_raised>>
    /\ UNCHANGED notDrillVars

\* policy_link.click() and the header append, lines 1003-1006
ClickPolicyLink(clickOk) ==
    /\ dpc = "click_link"
    /\ IF clickOk
       THEN /\ policy_data' = AppendPolicyHeader(policy_data, policy_number)
            /\ dpc' = "tabs"
            /\ failed_step' = failed_step
       ELSE /\ policy_data' = policy_data
            /\ dpc' = "except"
            /\ failed_step' = "click"
    /\ UNCHANGED <<windows, current, nextHandle, policy_number, new_window,
                   policy_link, returned, attempts, before_windows,
                   before_current, tab_created, closed_by_attempt, close_raised>>
    /\ UNCHANGED notDrillVars

\* _click_specific_tabs and extend, lines 1009-1010; the callee catches every
\* exception and returns what it gathered (lines 1142-1212)
ClickSpecificTabs(tabs_data) ==
    /\ dpc = "tabs"
    /\ tabs_data \in TabsDataLists
    /\ policy_data' = ExtendWithTabs(policy_data, tabs_data)
    /\ dpc' = "close"
    /\ failed_step' = IF tabs_data = <<>> THEN "extract" ELSE failed_step
    /\ UNCHANGED <<windows, current, nextHandle, policy_number, new_window,
                   policy_link, returned, attempts, before_windows,
                   before_current, tab_created, closed_by_attempt, close_raised>>
    /\ UNCHANGED notDrillVars

\* driver.close(); driver.switch_to.window(driver.window_handles[0])
\* lines 1013-1014, 1018-1019 and 1022-1023
CloseTabAndSwitch(closeOk, order) ==
    /\ dpc = "close"
    /\ IF closeOk
       THEN /\ order \in WindowHandleOrders(windows \ {current})
            /\ windows' = windows \ {current}
            /\ closed_by_attempt' = closed_by_attempt \cup {current}
            /\ current' = order[1]
            /\ close_raised' = close_raised
            /\ dpc' = "return"
       ELSE /\ order \in WindowHandleOrders(windows)
            /\ close_raised' = TRUE
            /\ dpc' = "except"
            /\ UNCHANGED <<windows, current, closed_by_attempt>>
    /\ UNCHANGED <<nextHandle, policy_number, policy_data, new_window,
                   policy_link, returned, attempts, before_windows,
                   before_current, tab_created, failed_step>>
    /\ UNCHANGED notDrillVars

\* except branch, lines 1027-1035
ExceptHandler(closeOk, order) ==
    /\ dpc = "except"
    /\ IF Cardinality(windows) > 1
       THEN IF closeOk /\ current \in windows
            THEN /\ order \in WindowHandleOrders(windows \ {current})
                 /\ windows' = windows \ {current}
                 /\ closed_by_attempt' = closed_by_attempt \cup {current}
                 /\ current' = order[1]
                 /\ close_raised' = close_raised
            ELSE \* the inner try swallows the exception
                 /\ order \in WindowHandleOrders(windows)
                 /\ close_raised' = TRUE
                 /\ UNCHANGED <<windows, current, closed_by_attempt>>
       ELSE /\ order \in WindowHandleOrders(windows)
            /\ UNCHANGED <<windows, current, closed_by_attempt, close_raised>>
    /\ dpc' = "return"
    /\ UNCHANGED <<nextHandle, policy_number, policy_data, new_window,
                   policy_link, returned, attempts, before_windows,
                   before_current, tab_created, failed_step>>
    /\ UNCHANGED notDrillVars

\* return policy_data, line 1037
GetPolicyDataReturn ==
    /\ dpc = "return"
    /\ returned' = policy_data
    /\ attempts' = attempts + 1
    /\ dpc' = "idle"
    /\ UNCHANGED <<windows, current, nextHandle, policy_number, policy_data,
                   new_window, policy_link, before_windows, before_current,
                   tab_created, closed_by_attempt, close_raised, failed_step>>
    /\ UNCHANGED notDrillVars

NextDrill ==
    \/ \E n \in PolicyNumbers : GetPolicyDataStart(n)
    \/ \E open \in {"ok", "raise", "nohandle"}, switchOk, getOk \in BOOLEAN :
         \E order \in WindowHandleOrders(
                IF open = "ok" THEN windows \cup {nextHandle} ELSE windows) :
            NavigateBackToMainPage(open, order, switchOk, getOk)
    \/ \E found \in BOOLEAN : ClickProductDetailsTab(found)
    \/ \E found \in BOOLEAN : FindPolicyLinkByNumber(found)
    \/ \E clickOk \in BOOLEAN : ClickPolicyLink(clickOk)
    \/ \E tabs_data \in TabsDataLists : ClickSpecificTabs(tabs_data)
    \/ \E closeOk \in BOOLEAN :
         \E order \in WindowHandleOrders(
                IF closeOk THEN windows \ {current} ELSE windows) :
            CloseTabAndSwitch(closeOk, order)
    \/ \E closeOk \in BOOLEAN :
         \E order \in WindowHandleOrders(
                IF closeOk /\ Cardinality(windows) > 1 /\ current \in windows
                THEN windows \ {current} ELSE windows) :
            ExceptHandler(closeOk, order)
    \/ GetPolicyDataReturn

(***************************************************************************)
(* File system helpers.                                                    *)
(***************************************************************************)
Last(seq) == seq[Len(seq)]

Range(seq) == {seq[i] : i \in 1..Len(seq)}

\* names of the files of a directory
Names(dir) == {f.name : f \in dir}

\* Path.exists() for a path of the download directory
PathExists(dir, name) == name \in Names(dir)

\* DOWNLOAD_DIR.glob("*.pdf"): the paths whose last suffix is .pdf
GlobPdf(dir) == {n \in Names(dir) : Last(n) = "pdf"}

\* file.name.endswith(".crdownload")
IsInProgress(name) == Last(name) = "crdownload"

NewFiles_NoSnapshot(cur, initial) == cur
\* new_files = current_files - initial_files, line 160
NewFiles(cur, initial) == cur \ initial

\* files the for loop of lines 162-165 can return
Returnable(new_files) == {n \in new_files : ~IsInProgress(n)}

\* keyword detection of lines 200-204: the first keyword the name contains
DetectKeyword(name) ==
    IF "pitzuim" \in Range(name) THEN "pitzuim"
    ELSE IF "tagmulim" \in Range(name) THEN "tagmulim"
    ELSE ""

\* f"{identification_number}[_{keyword}]_{timestamp}.pdf", lines 207-211
\* (a target name is kept as its parts; keyword "" stands for "no keyword part")
NewFilename(idn, keyword, timestamp) ==
    [prefix |-> "", idn |-> idn, keyword |-> keyword, timestamp |-> timestamp,
     suffix |-> "pdf"]

DirAfterMove_Copied(dir, src) == dir
\* shutil.move(src, target), line 215: the source leaves the directory
DirAfterMove(dir, src) == dir \ {src}

\* "if not pdf_file or not pdf_file.exists()", line 195
SourceGone(dir, pdf_file) == pdf_file = NoFile \/ ~PathExists(dir, pdf_file)

\* PDFManager.move_pdf_to_folder, lines 190-220: the directory, the client
\* files and the return value after the call. shutil.move raises (moveOk
\* false, or the target folder is missing) and the except branch returns None.
MovePdfToFolder(dir, files, flds, pdf_file, target_folder, idn, ts, moveOk) ==
    IF SourceGone(dir, pdf_file)
    THEN [dir |-> dir, files |-> files, ret |-> NoFile]
    ELSE LET src == CHOOSE f \in dir : f.name = pdf_file
             new_filename == NewFilename(idn, DetectKeyword(pdf_file), ts)
         IN IF moveOk /\ target_folder \in flds
            THEN [dir   |-> DirAfterMove(dir, src),
                  files |-> {g \in files : ~(g.folder = target_folder
                                             /\ g.name = new_filename)}
                            \cup {[folder |-> target_folder,
                                   name |-> new_filename,
                                   content |-> src.content]},
                  ret   |-> <<target_folder, new_filename>>]
            ELSE [dir |-> dir, files |-> files, ret |-> NoFile]

(***************************************************************************)
(* Initial values of the file system, the wait and the caller.             *)
(***************************************************************************)
InitFsState ==
    /\ now = 0
    /\ download_dir = {}
    /\ client_files = {}
    /\ nextFile = 1

InitWaitState ==
    /\ wpc = "idle"
    /\ start_time = 0
    /\ initial_files = {}
    /\ current_files = {}
    /\ downloaded_pdf = NoFile
    /\ dir_at_call = {}
    /\ appeared = {}

InitHarnessState ==
    /\ hpc = "idle"
    /\ wait_calls = 0
    /\ claim_src = NoFile
    /\ moved_pdf = NoFile
    /\ moved_again = NoFile
    /\ src_at_again = FALSE

(***************************************************************************)
(* The browser's download manager, which writes into DOWNLOAD_DIR on its   *)
(* own schedule: a download is written under an in-progress name and       *)
(* renamed to its final name when complete.                                *)
(***************************************************************************)
\* finished PDFs that are new with respect to the directory at call time
NewlyFinished(dir) ==
    {n \in Names(dir) : Last(n) = "pdf" /\ n \notin dir_at_call}

BrowserStartsDownload(stem) ==
    /\ nextFile <= MaxFiles
    /\ <<stem, "pdf">> \notin Names(download_dir)
    /\ <<stem, "pdf", "crdownload">> \notin Names(download_dir)
    /\ download_dir' = download_dir \cup
           {[name |-> <<stem, "pdf", "crdownload">>, content |-> nextFile]}
    /\ nextFile' = nextFile + 1
    /\ UNCHANGED <<now, folders, client_files>>
    /\ UNCHANGED <<wpc, start_time, initial_files, current_files,
                   downloaded_pdf, dir_at_call, appeared>>

BrowserFinishesDownload(f) ==
    /\ f \in download_dir
    /\ IsInProgress(f.name)
    /\ LET final == SubSeq(f.name, 1, Len(f.name) - 1)
           dir2 == (download_dir \ {f})
                      \cup {[name |-> final, content |-> f.content]}
       IN /\ download_dir' = dir2
          /\ appeared' = IF wpc = "loop"
                         THEN appeared \cup NewlyFinished(dir2)
                         ELSE appeared
    /\ UNCHANGED <<now, folders, client_files, nextFile>>
    /\ UNCHANGED <<wpc, start_time, initial_files, current_files,
                   downloaded_pdf, dir_at_call>>

(***************************************************************************)
(* PDFManager.wait_for_new_pdf_download, lines 152-169.  The caller starts *)
(* the call with WaitCall and resumes when wpc = "ret".                    *)
(***************************************************************************)
\* the call is over and the caller has taken downloaded_pdf: the locals die
WaitDone ==
    /\ wpc' = "idle"
    /\ start_time' = 0
    /\ initial_files' = {}
    /\ current_files' = {}
    /\ downloaded_pdf' = NoFile
    /\ dir_at_call' = {}
    /\ appeared' = {}

\* lines 155-156: start_time and the initial snapshot
WaitCall ==
    /\ wpc' = "loop"
    /\ start_time' = now
    /\ initial_files' = GlobPdf(download_dir)
    /\ current_files' = {}
    /\ downloaded_pdf' = NoFile
    /\ dir_at_call' = Names(download_dir)
    /\ appeared' = {}

TimeAfterSleep_Frozen(t) == t
\* time.sleep(SLEEP_SHORT), line 166: the clock after the sleep
TimeAfterSleep(t) == t + SLEEP_SHORT

\* one iteration of the while loop, lines 158-166: poll, return a new file
\* or sleep SLEEP_SHORT
WaitPoll(file) ==
    /\ wpc = "loop"
    /\ now - start_time < WaitTimeout
    /\ LET cur == GlobPdf(download_dir)
           new_files == NewFiles(cur, initial_files)
       IN /\ current_files' = cur
          /\ IF Returnable(new_files) # {}
             THEN /\ file \in Returnable(new_files)
                  /\ downloaded_pdf' = file
                  /\ wpc' = "ret"
                  /\ now' = now
             ELSE /\ file = NoFile
                  /\ downloaded_pdf' = downloaded_pdf
                  /\ wpc' = "loop"
                  /\ now' = TimeAfterSleep(now)
    /\ UNCHANGED <<download_dir, folders, client_files, nextFile>>
    /\ UNCHANGED <<start_time, initial_files, dir_at_call, appeared>>

\* loop exit, lines 168-169: return None
WaitTimedOut ==
    /\ wpc = "loop"
    /\ ~(now - start_time < WaitTimeout)
    /\ downloaded_pdf' = NoFile
    /\ wpc' = "ret"
    /\ UNCHANGED fsVars
    /\ UNCHANGED <<start_time, initial_files, current_files, dir_at_call,
                   appeared>>

(***************************************************************************)
(* A caller that waits for a download, claims the file it got and then     *)
(* claims the same source path a second time.                              *)
(***************************************************************************)
CallerWaits ==
    /\ hpc = "idle"
    /\ wpc = "idle"
    /\ wait_calls < MaxWaitCalls
    /\ WaitCall
    /\ hpc' = "waiting"
    /\ wait_calls' = wait_calls + 1
    /\ UNCHANGED fsVars
    /\ UNCHANGED <<claim_src, moved_pdf, moved_again, src_at_again>>

\* "if downloaded_pdf: moved_pdf = move_pdf_to_folder(...)", lines 547-556
CallerClaims(moveOk) ==
    /\ hpc = "waiting"
    /\ wpc = "ret"
    /\ LET r == MovePdfToFolder(download_dir, client_files, folders,
                                downloaded_pdf, HarnessFolder, HarnessId,
                                now, moveOk)
       IN IF downloaded_pdf # NoFile
          THEN /\ download_dir' = r.dir
               /\ client_files' = r.files
               /\ moved_pdf' = r.ret
               /\ claim_src' = downloaded_pdf
               /\ hpc' = "claimed"
          ELSE /\ UNCHANGED <<download_dir, client_files, moved_pdf, claim_src>>
               /\ hpc' = "idle"
    /\ WaitDone
    /\ UNCHANGED <<now, folders, nextFile>>
    /\ UNCHANGED <<wait_calls, moved_again, src_at_again>>

\* a second move_pdf_to_folder call for the source of the last claim
CallerClaimsAgain(moveOk) ==
    /\ hpc = "claimed"
    /\ LET r == MovePdfToFolder(download_dir, client_files, folders,
                                claim_src, HarnessFolder, HarnessId,
                                now, moveOk)
       IN /\ download_dir' = r.dir
          /\ client_files' = r.files
          /\ moved_again' = r.ret
    /\ src_at_again' = PathExists(download_dir, claim_src)
    /\ hpc' = "claimed_again"
    /\ UNCHANGED <<now, folders, nextFile>>
    /\ UNCHANGED waitVars
    /\ UNCHANGED <<wait_calls, claim_src, moved_pdf>>

CallerContinues ==
    /\ hpc = "claimed_again"
    /\ hpc' = "idle"
    /\ UNCHANGED fsVars
    /\ UNCHANGED waitVars
    /\ UNCHANGED <<wait_calls, claim_src, moved_pdf, moved_again,
                   src_at_again>>

NextPdf ==
    \/ \E stem \in DownloadStems :
          BrowserStartsDownload(stem) /\ UNCHANGED <<notPdfVars, harnessVars>>
    \/ \E f \in download_dir :
          BrowserFinishesDownload(f) /\ UNCHANGED <<notPdfVars, harnessVars>>
    \/ CallerWaits /\ UNCHANGED notPdfVars
    \/ \E file \in GlobPdf(download_dir) \cup {NoFile} :
          WaitPoll(file) /\ UNCHANGED <<notPdfVars, harnessVars>>
    \/ WaitTimedOut /\ UNCHANGED <<notPdfVars, harnessVars>>
    \/ \E moveOk \in BOOLEAN : CallerClaims(moveOk) /\ UNCHANGED notPdfVars
    \/ \E moveOk \in BOOLEAN : CallerClaimsAgain(moveOk) /\ UNCHANGED notPdfVars
    \/ CallerContinues /\ UNCHANGED notPdfVars

(***************************************************************************)
(* PDFManager.create_identification_folder, lines 171-188                  *)
(***************************************************************************)
\* invalid_chars = '/\\:*?"<>|'
InvalidChars_WithSpace == {"/", "\\", ":", "*", "?", "\"", "<", ">", "|", " "}
\* invalid_chars = '/\\:*?"<>|', line 178
InvalidChars == {"/", "\\", ":", "*", "?", "\"", "<", ">", "|"}

Sanitize_Keep(t) == t
\* the replace loop of lines 180-181
Sanitize(t) == [i \in 1..Len(t) |-> IF t[i] \in InvalidChars THEN "_" ELSE t[i]]

\* "if fullname_text:" is false for None and for the empty string
Truthy(name) == ~name.isNone /\ name.text # <<>>

FolderName(idn, name) ==
    IF Truthy(name) THEN Sanitize(name.text) ELSE <<"I", "D", "_">> \o idn

\* f"דוח_מאוחד_{identification_number}_{timestamp}.pdf", the target name of
\* saver_products_processor.PDFManager.move_pdf_to_folder (line 439)
UnifiedFilename(idn, ts) ==
    [prefix |-> "doh_meuhad_", idn |-> idn, keyword |-> "", timestamp |-> ts,
     suffix |-> "pdf"]

\* f"עיקולים_הלוואות{identification_number}_{timestamp}.pdf", the report
\* DataFileManager.save_extracted_data writes (line 1461)
ExtractFilename(idn, ts) ==
    [prefix |-> "ikulim_halvaot", idn |-> idn, keyword |-> "", timestamp |-> ts,
     suffix |-> "pdf"]

\* saver_products_processor.PDFManager.move_pdf_to_folder, lines 428-447
MoveUnifiedPdf(dir, files, flds, pdf_file, target_folder, idn, ts, moveOk) ==
    IF SourceGone(dir, pdf_file)
    THEN [dir |-> dir, files |-> files, ret |-> NoFile]
    ELSE LET src == CHOOSE f \in dir : f.name = pdf_file
             new_filename == UnifiedFilename(idn, ts)
         IN IF moveOk /\ target_folder \in flds
            THEN [dir   |-> DirAfterMove(dir, src),
                  files |-> {g \in files : ~(g.folder = target_folder
                                             /\ g.name = new_filename)}
                            \cup {[folder |-> target_folder,
                                   name |-> new_filename,
                                   content |-> src.content]},
                  ret   |-> <<target_folder, new_filename>>]
            ELSE [dir |-> dir, files |-> files, ret |-> NoFile]

(***************************************************************************)
(* Initial values of the batch and of process_client.                      *)
(***************************************************************************)
InitBatchState ==
    /\ bpc = "start"
    /\ index = 1
    /\ successful_count = 0
    /\ reported = <<>>
    /\ batch_result = "none"
    /\ calls = <<>>
    /\ results = <<>>
    /\ searches = <<>>
    /\ client_folder = [i \in 1..Len(text_array) |-> NoFolder]
    /\ pending = 0

\* no driver.get was made yet
NoNav == [to |-> "none", client |-> 0]

InitClaimObs ==
    /\ claimed_log = <<>>
    /\ left_unclaimed = {}
    /\ pdf_button = FALSE
    /\ report_log = <<>>
    /\ saver_extracted = "none"
    /\ saver_ret = "none"
    /\ last_nav = NoNav
    /\ nav_at_search = <<>>
    /\ triggers = <<>>
    /\ dir_at_click = {}

\* a detail box in which no selector matches anything
NoBox == [basic |-> <<>>, currency |-> <<>>, percentage |-> <<>>, link |-> <<>>]

\* a page on which no search finds anything
NoPage == [tabs |-> <<>>, links |-> <<>>]

\* no page is being read
InitNoPage ==
    /\ page = NoPage
    /\ tpc = "idle"
    /\ tabs_extracted = <<>>
    /\ tabs_log = <<>>

\* nothing observed of a wait_for_element call
NoWaitObserved ==
    [present |-> FALSE, timed_out |-> FALSE, driver_error |-> FALSE,
     diagnostics |-> <<>>, diag_failed |-> FALSE]

\* what a call has not returned yet
NotReturned == "not_returned"

\* no wait_for_element call is running
InitNoElement ==
    /\ wfe_pc = "idle"
    /\ wfe_call = [impl |-> "page_operations", by |-> "id", timeout |-> 0]
    /\ wfe_elapsed = 0
    /\ wfe_ret = NotReturned
    /\ wfe_obs = NoWaitObserved
    /\ caller_step = "idle"

\* no detail box and no product row is being read
InitNoExtraction ==
    /\ epc = "idle"
    /\ box_elements = NoBox
    /\ detail_data = <<>>
    /\ failed_passes = {}
    /\ rpc = "idle"
    /\ product_rows = <<>>
    /\ row_index = 0
    /\ detail_index = 0
    /\ all_data = <<>>
    /\ row_data = <<>>
    /\ extracted_data = <<>>
    /\ drill_calls = <<>>
    /\ extract_ret = "none"

\* no product extraction is running
InitNoProducts ==
    /\ InitNoPage
    /\ InitNoExtraction
    /\ InitNoElement

InitClientState ==
    /\ cpc = "idle"
    /\ identification_number = <<>>
    /\ fullname_text = NoName
    /\ identification_folder = NoFolder
    /\ attempt = 0
    /\ client_ret = FALSE
    /\ steps = <<>>
    /\ failed_at = "none"
    /\ result_row = FALSE

(***************************************************************************)
(* The portal: after a report request it starts writing a PDF at a time of *)
(* its choosing, or never.                                                 *)
(***************************************************************************)
\* a click that requests a report (report_button.click(), the PDF icon); the
\* count is not kept beyond the files the browser can still write
RequestReport(p, next) == IF next + p <= MaxFiles THEN p + 1 ELSE p

PortalStartsDownload(stem) ==
    /\ pending > 0
    /\ pending' = pending - 1
    /\ BrowserStartsDownload(stem)
    /\ UNCHANGED <<text_array, bpc, index, successful_count, reported,
                   batch_result, calls, results, searches, client_folder>>
    /\ UNCHANGED <<drillVars, harnessVars, clientVars, claimObs, productVars>>

(***************************************************************************)
(* handle_post_popup_actions, lines 576-633                                *)
(***************************************************************************)
NextEntry_Skip(i) == i + 2
\* the for loop goes on with the entry after the current one (line 606)
NextEntry(i) == i + 1

CountResult_Always(count, ret) == count + 1
\* "if process_client(...): successful_count += 1" (lines 608-611)
CountResult(count, ret) == IF ret THEN count + 1 ELSE count

EmptyListReturn_True == "True"
\* "return False" of line 599, under "if not text_array or len(text_array) == 0"
EmptyListReturn == "False"

\* lines 590-605: the directory exists already (driver_setup creates it);
\* an empty list is refused
BatchStart ==
    /\ bpc = "start"
    /\ IF Len(text_array) = 0
       THEN /\ bpc' = "done"
            /\ batch_result' = EmptyListReturn
       ELSE /\ bpc' = "loop"
            /\ batch_result' = batch_result
    /\ UNCHANGED <<text_array, index, successful_count, reported, calls,
                   results, searches, client_folder, pending>>
    /\ UNCHANGED <<drillVars, fsVars, waitVars, harnessVars, clientVars,
                   claimObs, productVars>>

\* lines 606-610: the loop calls process_client for the next identifier
BatchCallsClient ==
    /\ bpc = "loop"
    /\ index <= Len(text_array)
    /\ bpc' = "client"
    /\ calls' = Append(calls, text_array[index])
    /\ cpc' = "search"
    /\ identification_number' = text_array[index]
    /\ fullname_text' = NoName
    /\ identification_folder' = NoFolder
    /\ attempt' = 0
    /\ client_ret' = FALSE
    /\ steps' = <<>>
    /\ failed_at' = "none"
    /\ result_row' = FALSE
    /\ pdf_button' = FALSE
    /\ report_log' = <<>>
    /\ saver_extracted' = "none"
    /\ saver_ret' = "none"
    /\ dir_at_click' = {}
    /\ UNCHANGED <<last_nav, nav_at_search, triggers>>
    /\ UNCHANGED <<text_array, index, successful_count, reported,
                   batch_result, results, searches, client_folder, pending>>
    /\ UNCHANGED <<drillVars, fsVars, waitVars, harnessVars, claimed_log,
                   left_unclaimed, productVars>>

\* lines 608-618: count the result, sleep SLEEP_MEDIUM and go on with the
\* next identifier; the locals of process_client are gone
BatchTakesResult ==
    /\ bpc = "client"
    /\ cpc = "return"
    /\ results' = Append(results, client_ret)
    /\ successful_count' = CountResult(successful_count, client_ret)
    /\ now' = now + SLEEP_MEDIUM
    /\ index' = NextEntry(index)
    /\ bpc' = "loop"
    /\ cpc' = "idle"
    /\ identification_number' = <<>>
    /\ fullname_text' = NoName
    /\ identification_folder' = NoFolder
    /\ attempt' = 0
    /\ client_ret' = FALSE
    /\ steps' = <<>>
    /\ failed_at' = "none"
    /\ result_row' = FALSE
    /\ UNCHANGED <<text_array, reported, batch_result, calls, searches,
                   client_folder, pending>>
    /\ pdf_button' = FALSE
    /\ report_log' = <<>>
    /\ saver_extracted' = "none"
    /\ saver_ret' = "none"
    /\ dir_at_click' = {}
    /\ UNCHANGED <<last_nav, nav_at_search, triggers>>
    /\ UNCHANGED <<download_dir, folders, client_files, nextFile>>
    /\ UNCHANGED <<drillVars, waitVars, harnessVars, claimed_log,
                   left_unclaimed, productVars>>

\* lines 626-629: the final report and the return value
BatchEnd ==
    /\ bpc = "loop"
    /\ index > Len(text_array)
    /\ reported' = <<successful_count, Len(text_array)>>
    /\ batch_result' = IF successful_count > 0 THEN "True" ELSE "False"
    /\ bpc' = "done"
    /\ UNCHANGED <<text_array, index, successful_count, calls, results,
                   searches, client_folder, pending>>
    /\ UNCHANGED <<drillVars, fsVars, waitVars, harnessVars, clientVars,
                   claimObs, productVars>>

(***************************************************************************)
(* ClientProcessor.process_client, lines 231-275                           *)
(***************************************************************************)
\* what a step of process_client leaves alone besides its own variables
ClientFrame ==
    /\ UNCHANGED <<text_array, bpc, index, successful_count, reported,
                   batch_result, calls, results>>
    /\ UNCHANGED <<drillVars, harnessVars>>
    /\ UNCHANGED result_row

AfterSearch_GoOn(ok) == "name"
\* "if not self._search_client(...): return False" (lines 241-242)
AfterSearch(ok) == IF ok THEN "name" ELSE "return"

\* _navigate_to_client_details ends with the sub-tab click (line 404) unless
\* an element was missing before (lines 365-398)
AfterDetails(ok) == IF ok THEN "tab" ELSE "return"

\* "if not self._navigate_to_client_details(): return False" (lines 251-252)
AfterTab(ok) == IF ok THEN "reports" ELSE "return"

\* the step a "return False" was taken at
FailedAt(step, ok) == IF ok THEN "none" ELSE step

\* a wait-and-claim step: the client's list position, "report" or "icon",
\* and the report attempt (0 for the PDF icon)
ClaimStep(kind) ==
    [client |-> index, kind |-> kind,
     attempt |-> IF kind = "report" THEN attempt ELSE 0]

\* the triggers once the step of this kind has clicked: the click counts
\* when the portal takes the request
TriggersAfterClick(kind) ==
    IF RequestReport(pending, nextFile) # pending
    THEN Append(triggers, ClaimStep(kind))
    ELSE triggers

\* what a wait-and-claim step shows when it ends with the move result r: the
\* file it moved, if any, and the files it leaves in DOWNLOAD_DIR
ClaimObserved(r, kind) ==
    /\ claimed_log' =
          IF r.ret # NoFile
          THEN LET src == CHOOSE f \in download_dir : f.name = downloaded_pdf
               IN Append(claimed_log,
                         [content |-> src.content,
                          was_left |-> src.content \in left_unclaimed,
                          step |-> ClaimStep(kind),
                          target |-> r.ret])
          ELSE claimed_log
    /\ left_unclaimed' = left_unclaimed \cup {f.content : f \in r.dir}

\* step 1, _search_client (lines 277-334): False when the filter box, the
\* input or the filter button does not show up in time; True after the
\* filter button was clicked, whether the table then shows a row or not
ClientSearch(ok, row) ==
    /\ cpc = "search"
    /\ steps' = Append(steps, "search")
    /\ searches' = Append(searches, ok)
    /\ result_row' = (ok /\ row)
    /\ cpc' = AfterSearch(ok)
    /\ failed_at' = FailedAt("search", ok)
    /\ client_ret' = FALSE
    /\ UNCHANGED <<identification_number, fullname_text,
                   identification_folder, attempt>>
    /\ UNCHANGED <<client_folder, pending>>
    /\ UNCHANGED <<fsVars, waitVars>>
    /\ nav_at_search' = Append(nav_at_search, last_nav)
    /\ UNCHANGED <<claimed_log, left_unclaimed, pdf_button, report_log,
                   productVars>>
    /\ UNCHANGED <<saver_extracted, saver_ret, last_nav, triggers,
                   dir_at_click>>
    /\ UNCHANGED <<text_array, bpc, index, successful_count, reported,
                   batch_result, calls, results>>
    /\ UNCHANGED <<drillVars, harnessVars>>

\* step 2, _extract_client_name and create_identification_folder
\* (lines 245-248); mkdir raising ends the client in the except branch;
\* without a result row there is no FullName element and the name is None
ClientNameAndFolder(name, mkdirOk) ==
    /\ cpc = "name"
    /\ result_row \/ name = NoName
    /\ steps' = Append(steps, "name")
    /\ fullname_text' = name
    /\ LET subfolder == FolderName(identification_number, name)
       IN IF mkdirOk
          THEN /\ folders' = folders \cup {subfolder}
               /\ identification_folder' = subfolder
               /\ client_folder' = [client_folder EXCEPT ![index] = subfolder]
               /\ cpc' = "details"
          ELSE /\ UNCHANGED <<folders, identification_folder, client_folder>>
               /\ cpc' = "return"
    /\ failed_at' = FailedAt("name", mkdirOk)
    /\ client_ret' = FALSE
    /\ UNCHANGED <<identification_number, attempt>>
    /\ UNCHANGED <<searches, pending>>
    /\ UNCHANGED <<now, download_dir, client_files, nextFile>>
    /\ UNCHANGED waitVars
    /\ UNCHANGED <<claimObs, productVars>>
    /\ ClientFrame

\* step 3, _navigate_to_client_details up to the modal (lines 358-401):
\* the watch image and the RadioId21 element; without a result row there is
\* no watch image
ClientOpenDetails(ok) ==
    /\ cpc = "details"
    /\ result_row \/ ~ok
    /\ steps' = Append(steps, "details")
    /\ cpc' = AfterDetails(ok)
    /\ failed_at' = FailedAt("details", ok)
    /\ client_ret' = FALSE
    /\ UNCHANGED <<identification_number, fullname_text,
                   identification_folder, attempt>>
    /\ UNCHANGED <<searches, client_folder, pending>>
    /\ UNCHANGED <<fsVars, waitVars>>
    /\ UNCHANGED <<claimObs, productVars>>
    /\ ClientFrame

\* _click_product_details_tab (lines 410-454), the end of step 3
ClientSelectTab(ok) ==
    /\ cpc = "tab"
    /\ steps' = Append(steps, "tab")
    /\ cpc' = AfterTab(ok)
    /\ failed_at' = FailedAt("tab", ok)
    /\ client_ret' = FALSE
    /\ UNCHANGED <<identification_number, fullname_text,
                   identification_folder, attempt>>
    /\ UNCHANGED <<searches, client_folder, pending>>
    /\ UNCHANGED <<fsVars, waitVars>>
    /\ UNCHANGED <<claimObs, productVars>>
    /\ ClientFrame

\* step 4, _generate_pdf_reports (lines 473-500): without the PDF button no
\* report is attempted and processing goes on
ClientReportsStart(found) ==
    /\ cpc = "reports"
    /\ steps' = Append(steps, "reports")
    /\ attempt' = 0
    /\ cpc' = IF found THEN "report_attempt" ELSE "products"
    /\ pdf_button' = found
    /\ UNCHANGED <<identification_number, fullname_text,
                   identification_folder, client_ret, failed_at>>
    /\ UNCHANGED <<searches, client_folder, pending>>
    /\ UNCHANGED <<fsVars, waitVars>>
    /\ UNCHANGED <<claimed_log, left_unclaimed, report_log, runObs,
                   productVars>>
    /\ ClientFrame

\* no checkbox
NoCheckbox == [by |-> "none", value |-> ""]

CheckboxSelector_First(i) == [by |-> "id", value |-> "checkYtrotPitzuim"]
\* checkbox_selector of lines 517-525 and SELECTORS["checkbox_selectors"]
\* (lines 48-51), for attempt i of range(2)
CheckboxSelector(i) ==
    IF i = 0 THEN [by |-> "id", value |-> "checkYtrotPitzuim"]
    ELSE [by |-> "css", value |-> "[ng-model=\"compensationReportChecked\"]"]

\* what a _generate_single_report call has done when its clicks are over:
\* with every click made it has clicked its checkbox and started its one
\* wait; a click that failed ended it (lines 512-515, 528-531, 563)
ReportAttempt(i, clicksOk) ==
    [attempt |-> i,
     checkbox |-> IF clicksOk THEN CheckboxSelector(i) ELSE NoCheckbox,
     waits |-> IF clicksOk THEN 1 ELSE 0,
     claims |-> 0,
     outcome |-> IF clicksOk THEN "waiting" ELSE "failed"]

\* the record of the call once its wait returned pdf and its claim ret
\* (lines 547-556)
ReportClaimed(entry, pdf, ret) ==
    [entry EXCEPT !.claims = IF pdf # NoFile THEN 1 ELSE 0,
                  !.outcome = IF pdf = NoFile THEN "not_detected"
                              ELSE IF ret = NoFile THEN "move_failed"
                              ELSE "saved"]

\* _generate_single_report up to report_button.click() (lines 510-541): the
\* clicks either fail, which ends this attempt, or request the report
ClientReportAttempt(clicksOk) ==
    /\ cpc = "report_attempt"
    /\ wpc = "idle"
    /\ IF clicksOk
       THEN /\ pending' = RequestReport(pending, nextFile)
            /\ triggers' = TriggersAfterClick("report")
            /\ dir_at_click' = GlobPdf(download_dir)
            /\ cpc' = "report_clicked"
            /\ attempt' = attempt
       ELSE /\ pending' = pending
            /\ UNCHANGED <<triggers, dir_at_click>>
            /\ attempt' = attempt + 1
            /\ cpc' = IF attempt + 1 < 2 THEN "report_attempt" ELSE "products"
    /\ UNCHANGED waitVars
    /\ report_log' = Append(report_log, ReportAttempt(attempt, clicksOk))
    /\ UNCHANGED <<identification_number, fullname_text,
                   identification_folder, client_ret, steps, failed_at>>
    /\ UNCHANGED <<searches, client_folder>>
    /\ UNCHANGED fsVars
    /\ UNCHANGED <<claimed_log, left_unclaimed, pdf_button, productVars>>
    /\ UNCHANGED <<saver_extracted, saver_ret, last_nav, nav_at_search>>
    /\ ClientFrame

\* _generate_single_report, lines 544-545: the call of
\* wait_for_new_pdf_download, which takes its snapshot now; the browser had
\* the time since the click for itself
ClientReportWait ==
    /\ cpc = "report_clicked"
    /\ wpc = "idle"
    /\ WaitCall
    /\ cpc' = "report_wait"
    /\ UNCHANGED <<identification_number, fullname_text,
                   identification_folder, attempt, client_ret, steps,
                   failed_at>>
    /\ UNCHANGED <<searches, client_folder, pending>>
    /\ UNCHANGED fsVars
    /\ UNCHANGED <<claimObs, productVars>>
    /\ ClientFrame

TimeAfterReport_NoSleep(t) == t
\* time.sleep(SLEEP_LONG) at the end of a report attempt, line 558
TimeAfterReport(t) == t + SLEEP_LONG

\* _generate_single_report after the wait (lines 547-559): claim the file
\* if one was detected, then sleep SLEEP_LONG
ClientReportClaim(moveOk) ==
    /\ cpc = "report_wait"
    /\ wpc = "ret"
    /\ LET r == MovePdfToFolder(download_dir, client_files, folders,
                                downloaded_pdf, identification_folder,
                                identification_number, now, moveOk)
       IN IF downloaded_pdf # NoFile
          THEN /\ download_dir' = r.dir
               /\ client_files' = r.files
          ELSE UNCHANGED <<download_dir, client_files>>
    /\ ClaimObserved(MovePdfToFolder(download_dir, client_files, folders,
                                     downloaded_pdf, identification_folder,
                                     identification_number, now, moveOk),
                     "report")
    /\ report_log' =
          [report_log EXCEPT ![Len(report_log)] =
              ReportClaimed(@, downloaded_pdf,
                            MovePdfToFolder(download_dir, client_files, folders,
                                            downloaded_pdf, identification_folder,
                                            identification_number, now,
                                            moveOk).ret)]
    /\ dir_at_click' = {}
    /\ UNCHANGED <<pdf_button, productVars>>
    /\ UNCHANGED <<saver_extracted, saver_ret, last_nav, nav_at_search,
                   triggers>>
    /\ now' = TimeAfterReport(now)
    /\ WaitDone
    /\ attempt' = attempt + 1
    /\ cpc' = IF attempt + 1 < 2 THEN "report_attempt" ELSE "products"
    /\ UNCHANGED <<folders, nextFile>>
    /\ UNCHANGED <<identification_number, fullname_text,
                   identification_folder, client_ret, steps, failed_at>>
    /\ UNCHANGED <<searches, client_folder, pending>>
    /\ ClientFrame

\* step 5, first half: SaverProductsExtractor.extract_saver_products_data
\* (saver_products_processor.py lines 1621-1668) writes the assembled report
\* into the client folder when it succeeds
ClientExtractProducts(ok) ==
    /\ cpc = "products"
    /\ steps' = Append(steps, "products")
    /\ client_files' =
          IF ok
          THEN client_files \cup
                  {[folder |-> identification_folder,
                    name |-> ExtractFilename(identification_number, now),
                    content |-> 0]}
          ELSE client_files
    /\ cpc' = "pdf_icon"
    /\ UNCHANGED <<now, download_dir, folders, nextFile>>
    /\ UNCHANGED waitVars
    /\ UNCHANGED <<identification_number, fullname_text,
                   identification_folder, attempt, client_ret, failed_at>>
    /\ UNCHANGED <<searches, client_folder, pending>>
    /\ saver_extracted' = IF ok THEN "True" ELSE "False"
    /\ UNCHANGED <<claimed_log, left_unclaimed, pdf_button, report_log,
                   productVars>>
    /\ UNCHANGED <<saver_ret, last_nav, nav_at_search, triggers, dir_at_click>>
    /\ ClientFrame

SaverReturn_Both(success, navigation_success) == IF success = "True" THEN navigation_success ELSE "False"
\* "return navigation_success" of process_saver_products_with_navigation
\* (saver_products_processor.py line 1827); success is only logged
SaverReturn(success, navigation_success) == navigation_success

\* step 5, second half: NavigationHandler.navigate_via_pdf_icon up to the
\* click (saver_products_processor.py lines 1715-1743); without the icon, or
\* with a click that raises, it returns False
ClientPdfIcon(found) ==
    /\ cpc = "pdf_icon"
    /\ wpc = "idle"
    /\ steps' = Append(steps, "pdf_icon")
    /\ IF found
       THEN /\ pending' = RequestReport(pending, nextFile)
            /\ triggers' = TriggersAfterClick("icon")
            /\ dir_at_click' = GlobPdf(download_dir)
            /\ saver_ret' = saver_ret
            /\ cpc' = "icon_clicked"
       ELSE /\ pending' = pending
            /\ UNCHANGED <<triggers, dir_at_click>>
            /\ saver_ret' = SaverReturn(saver_extracted, "False")
            /\ cpc' = "events"
    /\ UNCHANGED waitVars
    /\ UNCHANGED <<identification_number, fullname_text,
                   identification_folder, attempt, client_ret, failed_at>>
    /\ UNCHANGED <<searches, client_folder>>
    /\ UNCHANGED fsVars
    /\ UNCHANGED <<claimed_log, left_unclaimed, pdf_button, report_log,
                   productVars>>
    /\ UNCHANGED <<saver_extracted, last_nav, nav_at_search>>
    /\ ClientFrame

\* NavigationHandler._handle_pdf_download, lines 1760-1763: the call of
\* wait_for_new_pdf_download
ClientPdfIconWait ==
    /\ cpc = "icon_clicked"
    /\ wpc = "idle"
    /\ WaitCall
    /\ cpc' = "icon_wait"
    /\ UNCHANGED <<identification_number, fullname_text,
                   identification_folder, attempt, client_ret, steps,
                   failed_at>>
    /\ UNCHANGED <<searches, client_folder, pending>>
    /\ UNCHANGED fsVars
    /\ UNCHANGED <<claimObs, productVars>>
    /\ ClientFrame

\* NavigationHandler._handle_pdf_download after the wait (lines 1765-1779)
ClientPdfIconClaim(moveOk) ==
    /\ cpc = "icon_wait"
    /\ wpc = "ret"
    /\ LET r == MoveUnifiedPdf(download_dir, client_files, folders,
                               downloaded_pdf, identification_folder,
                               identification_number, now, moveOk)
       IN IF downloaded_pdf # NoFile
          THEN /\ download_dir' = r.dir
               /\ client_files' = r.files
               /\ now' = IF r.ret # NoFile THEN now + SLEEP_AFTER_MOVE ELSE now
          ELSE UNCHANGED <<download_dir, client_files, now>>
    /\ ClaimObserved(MoveUnifiedPdf(download_dir, client_files, folders,
                                    downloaded_pdf, identification_folder,
                                    identification_number, now, moveOk),
                     "icon")
    /\ saver_ret' =
          SaverReturn(saver_extracted,
                      IF MoveUnifiedPdf(download_dir, client_files, folders,
                                        downloaded_pdf, identification_folder,
                                        identification_number, now,
                                        moveOk).ret # NoFile
                      THEN "True" ELSE "False")
    /\ UNCHANGED <<pdf_button, report_log, productVars>>
    /\ dir_at_click' = {}
    /\ UNCHANGED <<saver_extracted, last_nav, nav_at_search, triggers>>
    /\ WaitDone
    /\ cpc' = "events"
    /\ UNCHANGED <<folders, nextFile>>
    /\ UNCHANGED <<identification_number, fullname_text,
                   identification_folder, attempt, client_ret, steps,
                   failed_at>>
    /\ UNCHANGED <<searches, client_folder, pending>>
    /\ ClientFrame

ResultAfterSteps_Strict(reports_ok, success) == success = "True"
\* "return True" of line 271: the results of _generate_pdf_reports and of
\* process_saver_products_with_navigation were only logged (lines 254-266)
ResultAfterSteps(reports_ok, success) == TRUE

\* step 6, _navigate_to_events_page (lines 565-573), whose driver.get may
\* raise, which is logged; then "return True"
ClientEvents(getOk) ==
    /\ cpc = "events"
    /\ steps' = Append(steps, "events")
    /\ client_ret' = ResultAfterSteps(pdf_button, saver_ret)
    /\ last_nav' = IF getOk THEN [to |-> "events", client |-> index]
                   ELSE last_nav
    /\ cpc' = "return"
    /\ UNCHANGED <<identification_number, fullname_text,
                   identification_folder, attempt, failed_at>>
    /\ UNCHANGED <<searches, client_folder, pending>>
    /\ UNCHANGED <<fsVars, waitVars>>
    /\ UNCHANGED <<claimed_log, left_unclaimed, pdf_button, report_log,
                   productVars>>
    /\ UNCHANGED <<saver_extracted, saver_ret, nav_at_search, triggers,
                   dir_at_click>>
    /\ ClientFrame

\* the loop of handle_post_popup_actions
BatchStep ==
    \/ BatchStart
    \/ BatchCallsClient
    \/ BatchTakesResult
    \/ BatchEnd

\* the steps of process_client that decide its result
ClientDecidingStep ==
    \/ \E ok \in BOOLEAN, row \in BOOLEAN : ClientSearch(ok, row)
    \/ \E name \in DisplayNames, mkdirOk \in BOOLEAN :
          ClientNameAndFolder(name, mkdirOk)
    \/ \E ok \in BOOLEAN : ClientOpenDetails(ok)
    \/ \E ok \in BOOLEAN : ClientSelectTab(ok)
    \/ \E ok \in BOOLEAN : ClientExtractProducts(ok)
    \/ \E getOk \in BOOLEAN : ClientEvents(getOk)

\* a batch on a portal page that shows neither the report button nor the
\* PDF icon: no download is requested
NextBatch ==
    \/ BatchStep
    \/ ClientDecidingStep
    \/ ClientReportsStart(FALSE)
    \/ ClientPdfIcon(FALSE)

\* the steps of process_client around the downloads, and the download wait
ClientDownloadStep ==
    \/ \E found \in BOOLEAN : ClientReportsStart(found)
    \/ \E clicksOk \in BOOLEAN : ClientReportAttempt(clicksOk)
    \/ ClientReportWait
    \/ \E moveOk \in BOOLEAN : ClientReportClaim(moveOk)
    \/ \E found \in BOOLEAN : ClientPdfIcon(found)
    \/ ClientPdfIconWait
    \/ \E moveOk \in BOOLEAN : ClientPdfIconClaim(moveOk)
    \/ \E file \in GlobPdf(download_dir) \cup {NoFile} :
          WaitPoll(file) /\ UNCHANGED <<notPdfVars, harnessVars>>
    \/ WaitTimedOut /\ UNCHANGED <<notPdfVars, harnessVars>>

\* what the program does, one step of its single thread
ProgramStep ==
    \/ BatchStep
    \/ ClientDecidingStep
    \/ ClientDownloadStep

\* the names the portal gives the reports of one client: one that holds a
\* keyword and one that holds none
PortalStems == {"pitzuim", "doh"}

\* what the portal and the browser do on their own
PortalStep ==
    \/ \E stem \in PortalStems : PortalStartsDownload(stem)
    \/ \E f \in download_dir :
          BrowserFinishesDownload(f) /\ UNCHANGED <<notPdfVars, harnessVars>>

\* one client on the full portal: downloads are requested, started and
\* finished (or not) at any time
NextClient ==
    \/ ProgramStep
    \/ PortalStep

(***************************************************************************)
(* Specifications.                                                         *)
(***************************************************************************)
\* a batch that has not started: what the drill-down and the PDFManager
\* specifications keep fixed
InitNoBatch ==
    /\ text_array = <<>>
    /\ InitBatchState
    /\ InitClientState

InitDrill ==
    /\ InitDrillState
    /\ InitFsState
    /\ folders = {HarnessFolder}
    /\ InitWaitState
    /\ InitHarnessState
    /\ InitClaimObs
    /\ InitNoProducts
    /\ InitNoBatch

SpecDrill == InitDrill /\ [][NextDrill]_vars

InitPdf ==
    /\ InitDrillState
    /\ InitFsState
    /\ folders = {HarnessFolder}
    /\ InitWaitState
    /\ InitHarnessState
    /\ InitClaimObs
    /\ InitNoProducts
    /\ InitNoBatch

SpecPdf == InitPdf /\ [][NextPdf]_vars

\* handle_post_popup_actions called with a list of up to MaxClients
\* identifiers
InitBatch ==
    /\ InitDrillState
    /\ InitFsState
    /\ folders = {}
    /\ InitWaitState
    /\ InitHarnessState
    /\ InitClaimObs
    /\ InitNoProducts
    /\ text_array \in {[i \in 1..n |-> Identifier(i)] : n \in 0..MaxClients}
    /\ InitBatchState
    /\ InitClientState

SpecBatch == InitBatch /\ [][NextBatch]_vars

\* the program is one thread that keeps running
SpecBatchFair == SpecBatch /\ WF_vars(NextBatch)

\* handle_post_popup_actions called with one identifier
InitClient ==
    /\ InitDrillState
    /\ InitFsState
    /\ folders = {}
    /\ InitWaitState
    /\ InitHarnessState
    /\ InitClaimObs
    /\ InitNoProducts
    /\ text_array = <<Identifier(1)>>
    /\ InitBatchState
    /\ InitClientState

SpecClient == InitClient /\ [][NextClient]_vars

\* the program keeps running; the portal and the browser owe nothing
SpecClientFair == SpecClient /\ WF_vars(ProgramStep)

(***************************************************************************)
(* create_identification_folder applied to one display name and one        *)
(* identifier (lines 171-188).                                             *)
(***************************************************************************)
\* characters display names are built from: the nine the function replaces,
\* a letter, the space and the underscore
NameAlphabet == InvalidChars \cup {"a", " ", "_"}

NamesUpTo(n) == UNION {[1..k -> NameAlphabet] : k \in 0..n}

\* the display name of scenario B
JaneDoe == <<"J", "a", "n", "e", " ", "D", "o", "e">>

\* fullname_text arguments: None, the empty string, short strings, 'Jane Doe'
FolderNameInputs ==
    {NoName} \cup {SomeName(t) : t \in NamesUpTo(MaxNameLen) \cup {JaneDoe}}

\* identification_number arguments
FolderIdInputs == {Identifier(1), <<"1", "2">>}

InitFolder ==
    /\ InitDrillState
    /\ InitFsState
    /\ folders = {}
    /\ InitWaitState
    /\ InitHarnessState
    /\ InitClaimObs
    /\ InitNoProducts
    /\ text_array = <<>>
    /\ InitBatchState
    /\ cpc = "idle"
    /\ identification_number \in FolderIdInputs
    /\ fullname_text \in FolderNameInputs
    /\ identification_folder = NoFolder
    /\ attempt = 0
    /\ client_ret = FALSE
    /\ steps = <<>>
    /\ failed_at = "none"
    /\ result_row = FALSE

\* the call: the folder name is computed and the folder made (lines 175-186)
CreateIdentificationFolder ==
    /\ identification_folder = NoFolder
    /\ identification_folder' = FolderName(identification_number, fullname_text)
    /\ folders' = folders \cup {FolderName(identification_number, fullname_text)}
    /\ UNCHANGED <<now, download_dir, client_files, nextFile>>
    /\ UNCHANGED <<cpc, identification_number, fullname_text, attempt,
                   client_ret, steps, failed_at, result_row>>
    /\ UNCHANGED <<drillVars, waitVars, harnessVars, batchVars, claimObs, productVars>>

NextFolder == CreateIdentificationFolder

SpecFolder == InitFolder /\ [][NextFolder]_vars

(***************************************************************************)
(* DetailBoxExtractor.extract_all_detail_box_data applied to one detail    *)
(* box (saver_products_processor.py, lines 514-668).                       *)
(*                                                                         *)
(* A string is a sequence of tokens.  A token is one character, except     *)
(* that the fixed string BindPrefix and the stems "element_", "currency_", *)
(* "percentage_", "link_" are one token each.  An attribute that is absent *)
(* and an attribute that is empty are both <<>>: the code reads every      *)
(* attribute as get_attribute(..) or "" (or the positional default).       *)
(***************************************************************************)
\* the string _generate_element_key removes from an ng-bind attribute
BindPrefix == "details.vw_HoldingsShow_SavingProductsDetails."

\* str.strip(): leading and trailing whitespace removed
Strip(t) ==
    LET ix == {i \in 1..Len(t) : t[i] # " "}
    IN IF ix = {}
       THEN <<>>
       ELSE LET lo == CHOOSE i \in ix : \A j \in ix : i <= j
                hi == CHOOSE i \in ix : \A j \in ix : j <= i
            IN SubSeq(t, lo, hi)

\* str.replace(old, ""): every occurrence of the token old removed
RemoveAll(t, old) == SelectSeq(t, LAMBDA c : c # old)

NormalizeKey_Keep(key) == key
\* key.replace(" ", "_").replace("-", "_") (line 601)
NormalizeKey(key) ==
    [i \in 1..Len(key) |-> IF key[i] \in {" ", "-"} THEN "_" ELSE key[i]]

\* str(i) of a loop index
IndexStr(i) == <<"0", "1", "2", "3", "4", "5", "6", "7", "8", "9">>[i + 1]

\* f"element_{element_index}"
PositionalKey(stem, i) == <<stem, IndexStr(i)>>

\* _generate_element_key (lines 582-601); element_index counts from 0
GenerateElementKey(element, element_index) ==
    LET element_name == element.name
        element_ng_bind == element.ng_bind
        element_class == element.class
        key == IF element_name # <<>>
               THEN element_name
               ELSE IF element_ng_bind # <<>>
               THEN RemoveAll(element_ng_bind, BindPrefix)
               ELSE IF element_class # <<>> /\ "ng-binding" \in Range(element_class)
               THEN PositionalKey("element_", element_index)
               ELSE PositionalKey("element_", element_index)
    IN NormalizeKey(key)

\* keys of a dict, which is kept as its entries in insertion order
DictKeys(d) == {d[i].key : i \in 1..Len(d)}

\* d[key], for a key of d
DictGet(d, key) == (CHOOSE e \in Range(d) : e.key = key).value

DictSet_Append(d, key, value) == Append(d, [key |-> key, value |-> value])
\* d[key] = value: a new key is added at the end, an old one keeps its place
DictSet(d, key, value) ==
    IF key \in DictKeys(d)
    THEN [i \in 1..Len(d) |->
             IF d[i].key = key THEN [key |-> key, value |-> value] ELSE d[i]]
    ELSE Append(d, [key |-> key, value |-> value])

\* one iteration of the loop of _extract_basic_elements (lines 567-580):
\* element.text or an attribute read may raise, which skips the element
BasicElement(element, element_index, d) ==
    IF element.fails = "text" THEN d
    ELSE LET text == Strip(element.text)
         IN IF text = <<>> THEN d
            ELSE IF element.fails = "attr" THEN d
            ELSE DictSet(d, GenerateElementKey(element, element_index), text)

\* one iteration of the loops of _extract_currency_elements,
\* _extract_percentage_elements and _extract_link_elements (lines 612-623,
\* 634-645, 656-666): the key is the name attribute or "<stem><i>", as it is
TypedElement(element, stem, i, d) ==
    IF element.fails = "text" THEN d
    ELSE LET text == Strip(element.text)
         IN IF text = <<>> THEN d
            ELSE IF element.fails = "attr" THEN d
            ELSE DictSet(d, IF element.name # <<>> THEN element.name
                            ELSE PositionalKey(stem, i), text)

\* the stem of the positional key of each pass
PassStem(p) ==
    CASE p = "basic" -> "element_"
      [] p = "currency" -> "currency_"
      [] p = "percentage" -> "percentage_"
      [] p = "link" -> "link_"

\* the loop of one pass over the elements its selector matched, from the
\* n-th on (enumerate counts from 0, n from 1)
RECURSIVE PassFrom(_, _, _, _)
PassFrom(p, elements, n, d) ==
    IF n > Len(elements)
    THEN d
    ELSE PassFrom(p, elements, n + 1,
                  IF p = "basic"
                  THEN BasicElement(elements[n], n - 1, d)
                  ELSE TypedElement(elements[n], PassStem(p), n - 1, d))

\* extraction_methods (lines 531-536)
PassOrder == <<"basic", "currency", "percentage", "link">>

PassNumber(p) == CHOOSE i \in 1..Len(PassOrder) : PassOrder[i] = p

\* the loop of line 538 goes on to the next method, or to the return
NextPass(p) ==
    IF PassNumber(p) < Len(PassOrder) THEN PassOrder[PassNumber(p) + 1]
    ELSE "done"

AfterFailedPass_Stop(p) == "done"
\* a method whose find_elements raised was logged (lines 541-542, 624-625,
\* 646-647, 667-668) and the loop goes on
AfterFailedPass(p) == NextPass(p)

\* one extraction method is called (line 540): its find_elements raises and
\* nothing is stored, or its loop runs over the matched elements
ExtractionPass(p, findRaises) ==
    /\ epc = p
    /\ IF findRaises
       THEN /\ failed_passes' = failed_passes \cup {p}
            /\ epc' = AfterFailedPass(p)
            /\ UNCHANGED detail_data
       ELSE /\ detail_data' = PassFrom(p, box_elements[p], 1, detail_data)
            /\ epc' = NextPass(p)
            /\ UNCHANGED failed_passes
    /\ UNCHANGED box_elements
    /\ UNCHANGED <<drillVars, fsVars, waitVars, harnessVars, batchVars,
                   clientVars, claimObs, rowVars, pageVars, elemVars>>

\* _extract_basic_elements (lines 555-580)
ExtractBasicElements == \E findRaises \in BOOLEAN : ExtractionPass("basic", findRaises)

\* _extract_currency_elements (lines 603-625)
ExtractCurrencyElements == \E findRaises \in BOOLEAN : ExtractionPass("currency", findRaises)

\* _extract_percentage_elements (lines 627-647)
ExtractPercentageElements == \E findRaises \in BOOLEAN : ExtractionPass("percentage", findRaises)

\* _extract_link_elements (lines 649-668)
ExtractLinkElements == \E findRaises \in BOOLEAN : ExtractionPass("link", findRaises)

NextExtract ==
    \/ ExtractBasicElements
    \/ ExtractCurrencyElements
    \/ ExtractPercentageElements
    \/ ExtractLinkElements

\* an element of the page: its attributes, its text, and the read that
\* raises on it ("none", "text" or "attr")
Element(name, ng_bind, class, text, fails) ==
    [name |-> name, ng_bind |-> ng_bind, class |-> class, text |-> text,
     fails |-> fails]

\* div and span elements of a detail box
BasicElements ==
    {Element(<<"k">>, <<>>, <<>>, <<"v">>, "none"),
     Element(<<"a", " ", "b", "-", "c">>, <<>>, <<>>, <<" ", "v", " ">>, "none"),
     Element(<<>>, <<BindPrefix, "k">>, <<"ng-binding">>, <<"w">>, "none"),
     Element(<<>>, <<"x", BindPrefix, "y">>, <<"ng-binding">>, <<"w">>, "none"),
     Element(<<>>, <<>>, <<"ng-binding">>, <<"v">>, "none"),
     Element(<<>>, <<>>, <<>>, <<"w", " ", "w">>, "none"),
     Element(<<>>, <<>>, <<>>, <<" ">>, "none"),
     Element(<<>>, <<>>, <<>>, <<>>, "none"),
     Element(<<"element_", "1">>, <<>>, <<>>, <<"z">>, "none"),
     Element(<<"k">>, <<>>, <<>>, <<"v">>, "text"),
     Element(<<"k">>, <<>>, <<>>, <<"v">>, "attr")}

\* elements the .shekel, .precentage and a selectors match
TypedElements ==
    {Element(<<"k">>, <<>>, <<>>, <<"c">>, "none"),
     Element(<<"a", " ", "b", "-", "c">>, <<>>, <<>>, <<"c">>, "none"),
     Element(<<>>, <<>>, <<>>, <<"c", " ">>, "none"),
     Element(<<>>, <<>>, <<>>, <<" ">>, "none"),
     Element(<<>>, <<>>, <<>>, <<"c">>, "text")}

\* how many elements each selector matches, MaxElems in all at most
BoxSizes ==
    {n \in [{"basic", "currency", "percentage", "link"} -> 0..MaxElems] :
        n["basic"] + n["currency"] + n["percentage"] + n["link"] <= MaxElems}

\* the detail boxes with n[p] elements matched by the selector of pass p
BoxesOfSizes(n) ==
    {[basic |-> b, currency |-> c, percentage |-> q, link |-> l] :
        b \in [1..n["basic"] -> BasicElements],
        c \in [1..n["currency"] -> TypedElements],
        q \in [1..n["percentage"] -> TypedElements],
        l \in [1..n["link"] -> TypedElements]}

DetailBoxes == UNION {BoxesOfSizes(n) : n \in BoxSizes}

\* the call: detail_data = {} (line 527), then the loop over the methods
InitExtract ==
    /\ InitDrillState
    /\ InitFsState
    /\ folders = {}
    /\ InitWaitState
    /\ InitHarnessState
    /\ InitClaimObs
    /\ InitNoBatch
    /\ InitNoPage
    /\ InitNoElement
    /\ epc = "basic"
    /\ box_elements \in DetailBoxes
    /\ detail_data = <<>>
    /\ failed_passes = {}
    /\ rpc = "idle"
    /\ product_rows = <<>>
    /\ row_index = 0
    /\ detail_index = 0
    /\ all_data = <<>>
    /\ row_data = <<>>
    /\ extracted_data = <<>>
    /\ drill_calls = <<>>
    /\ extract_ret = "none"

SpecExtract == InitExtract /\ [][NextExtract]_vars

(***************************************************************************)
(* SaverProductsExtractor.extract_saver_products_data for one client       *)
(* (saver_products_processor.py, lines 1621-1694), with                    *)
(* ProductDataProcessor.process_product_row (lines 675-721) and            *)
(* _process_detail_boxes_with_policies (lines 903-977).                    *)
(*                                                                         *)
(* A report line is a record: its text, a pair of strings, and where it    *)
(* comes from (kind, product row, detail box; box 0 is the row itself).    *)
(***************************************************************************)
Line(kind, row, box, text) ==
    [kind |-> kind, row |-> row, box |-> box, text |-> text]

\* a dict entry
Entry(key, value) == [key |-> key, value |-> value]

\* records extract_all_detail_box_data returns for the boxes of the page
BoxRecords ==
    {<<>>,
     <<Entry(<<"element_", "0">>, "co"), Entry(<<"productTypeName", "0">>, "ty")>>,
     <<Entry(<<"element_", "0">>, "co"), Entry(<<"element_", "4">>, "555-1"),
       Entry(<<"element_", "11">>, "sum")>>,
     <<Entry(<<"element_", "0">>, "co"), Entry(<<"poliyStatusName", "1">>, "st"),
       Entry(<<"productTypeName", "1">>, "ty")>>}

\* the label of lines 938-945 for a key of the box with index d (from 0),
\* "" for a key that gets no line
LabelOf(key, d) ==
    IF key = <<"element_", "0">> THEN "shem_hevra_menahelet"
    ELSE IF key = <<"productTypeName", IndexStr(d)>> THEN "sug_mutzar"
    ELSE IF key = <<"poliyStatusName", IndexStr(d)>> THEN "status"
    ELSE IF key = <<"element_", "11">> THEN "sahak_hisahon"
    ELSE ""

\* the loop of lines 937-945 over box_data.items(): one labeled line per
\* labeled key, in the order of the dict
LabeledLines(box_data, r, b) ==
    LET labeled == SelectSeq(box_data, LAMBDA e : LabelOf(e.key, b - 1) # "")
    IN [i \in 1..Len(labeled) |->
           Line("label", r, b, <<LabelOf(labeled[i].key, b - 1), labeled[i].value>>)]

\* "element_4" in box_data (line 948)
HasPolicyNumber(box_data) == <<"element_", "4">> \in DictKeys(box_data)

\* lists _get_policy_data_for_number can return for a policy number: empty
\* when the tab, the tab label or the link was not found, else the policy
\* header alone or followed by a line of the tabs
PolicyDataLists(pn) ==
    {<<>>,
     AppendPolicyHeader(<<>>, pn),
     ExtendWithTabs(AppendPolicyHeader(<<>>, pn), <<<<"liens", "row">>>>)}

\* the lines of a drill-down as lines of box b of row r
PolicyLines(pd, r, b) ==
    [i \in 1..Len(pd) |->
        Line(IF pd[i] = PolicyHeader(pd[i][2]) THEN "policy_header" ELSE "policy_line",
             r, b, pd[i])]

\* all_data.append("") (line 962)
BlankLine(r, b) == Line("blank", r, b, <<"", "">>)

BoxLines_PolicyLast(labels, pd, r, b) == (labels \o <<BlankLine(r, b)>>) \o PolicyLines(pd, r, b)
\* lines 937-962 for one box: its labeled lines, then the drill-down's
\* lines, then the blank line
BoxLines(labels, pd, r, b) == (labels \o PolicyLines(pd, r, b)) \o <<BlankLine(r, b)>>

\* lines 964-971: the error line and a blank line
BoxErrorLines(r, b) == <<Line("error", r, b, <<"Detail Box", "ERROR">>), BlankLine(r, b)>>

RowHeaderLines_NoHeader(r, product_name) == <<Line("space", r, 0, <<" ", "">>)>>
\* lines 700-702: the header line f"*{product_name}*" and the line " "
RowHeaderLines(r, product_name) ==
    <<Line("product", r, 0, <<"*", product_name>>), Line("space", r, 0, <<" ", "">>)>>

\* the product rows div[ng-repeat='item in GroupedData'] matches: per row
\* its name and the records of its detail boxes
RECURSIVE SumUpTo(_, _)
SumUpTo(c, k) == IF k = 0 THEN 0 ELSE c[k] + SumUpTo(c, k - 1)

\* ways to cut m boxes into k rows
RowCuts(k, m) == {c \in [1..k -> 0..m] : SumUpTo(c, k) = m}

\* the listing of k rows that holds the given boxes, cut as c says; the
\* rows show their names in div.productName, or the page has no such element
Listing(boxes, c, named) ==
    [r \in 1..Len(c) |->
        [name |-> IF named THEN "name" ELSE "",
         boxes |-> SubSeq(boxes, 1 + SumUpTo(c, r - 1), SumUpTo(c, r))]]

ListingsOf(k, m) ==
    {Listing(boxes, c, named) :
        boxes \in [1..m -> BoxRecords], c \in RowCuts(k, m), named \in BOOLEAN}

ProductListings ==
    UNION {UNION {ListingsOf(k, m) : m \in 0..MaxBoxes} : k \in 0..MaxRows}

\* _extract_product_name (lines 725-738): the text of div.productName, or
\* "Product <n>" when the element is not found
ProductName(row) == IF row.name # "" THEN row.name ELSE "Product"

\* the boxes of the row being processed
RowBoxes == product_rows[row_index].boxes

rowFrame ==
    UNCHANGED <<drillVars, waitVars, harnessVars, batchVars, clientVars,
                claimObs, extractVars, pageVars, elemVars>>

\* lines 1635-1654: the SaverMyProducts element is waited for and the rows
\* are listed; without the element or without rows the call returns False
ExtractStart(found) ==
    /\ rpc = "find"
    /\ IF found /\ product_rows # <<>>
       THEN /\ rpc' = "row"
            /\ row_index' = 1
            /\ extract_ret' = extract_ret
       ELSE /\ rpc' = "done"
            /\ row_index' = row_index
            /\ extract_ret' = "false"
    /\ UNCHANGED <<product_rows, detail_index, all_data, row_data,
                   extracted_data, drill_calls>>
    /\ UNCHANGED fsVars
    /\ rowFrame

\* process_product_row up to the listing of the detail boxes (lines
\* 693-705, 919-923): the header line with the product name, the line
\* " ", then div.details-box is looked up; when
\* that raises, the row gets the line of lines 973-975 and no box is read
ProcessProductRow(findRaises) ==
    /\ rpc = "row"
    /\ row_data' = RowHeaderLines(row_index, ProductName(product_rows[row_index]))
    /\ IF findRaises
       THEN /\ all_data' = <<Line("error", row_index, 0, <<"DETAILS", "ERROR">>)>>
            /\ detail_index' = Len(RowBoxes) + 1
       ELSE /\ all_data' = <<>>
            /\ detail_index' = 1
    /\ rpc' = "boxes"
    /\ UNCHANGED <<product_rows, row_index, extracted_data, drill_calls,
                   extract_ret>>
    /\ UNCHANGED fsVars
    /\ rowFrame

BoxAfterError_Abort(d, n) == n + 1
\* the except of lines 964-971 is inside the loop: the next box follows
BoxAfterError(d, n) == d + 1

\* one iteration of the loop of lines 925-971: the box's record, its
\* labeled lines, the drill-down for its policy number if it has one, the
\* blank line; a raise after the labeled lines adds the error lines
ProcessDetailBox(pd, raises) ==
    /\ rpc = "boxes"
    /\ detail_index <= Len(RowBoxes)
    /\ LET box_data == RowBoxes[detail_index]
           labels == LabeledLines(box_data, row_index, detail_index)
           drills == HasPolicyNumber(box_data) /\ ~raises
       IN /\ pd \in (IF drills
                     THEN PolicyDataLists(DictGet(box_data, <<"element_", "4">>))
                     ELSE {<<>>})
          /\ all_data' =
                IF raises
                THEN (all_data \o labels) \o BoxErrorLines(row_index, detail_index)
                ELSE all_data \o BoxLines(labels, pd, row_index, detail_index)
          /\ drill_calls' =
                IF drills
                THEN Append(drill_calls, DictGet(box_data, <<"element_", "4">>))
                ELSE drill_calls
    /\ detail_index' =
          IF raises THEN BoxAfterError(detail_index, Len(RowBoxes))
          ELSE detail_index + 1
    /\ UNCHANGED <<rpc, product_rows, row_index, row_data, extracted_data,
                   extract_ret>>
    /\ UNCHANGED fsVars
    /\ rowFrame

\* the row is done (lines 710, 1689-1692): its lines go to the end of the
\* report's lines, and the loop of line 1688 goes on
ProductRowDone ==
    /\ rpc = "boxes"
    /\ detail_index > Len(RowBoxes)
    /\ extracted_data' = extracted_data \o (row_data \o all_data)
    /\ row_data' = <<>>
    /\ all_data' = <<>>
    /\ IF row_index < Len(product_rows)
       THEN /\ row_index' = row_index + 1
            /\ rpc' = "row"
       ELSE /\ row_index' = row_index
            /\ rpc' = "save"
    /\ UNCHANGED <<product_rows, detail_index, drill_calls, extract_ret>>
    /\ UNCHANGED fsVars
    /\ rowFrame

\* DataFileManager.save_extracted_data (lines 1444-1569): the document is
\* built from the lines and written into the client's folder, True; or
\* building it raises, nothing is written, False
SaveExtractedData(ok) ==
    /\ rpc = "save"
    /\ client_files' =
          IF ok
          THEN client_files \cup
                  {[folder |-> identification_folder,
                    name |-> ExtractFilename(identification_number, now),
                    content |-> 0]}
          ELSE client_files
    /\ extract_ret' = IF ok THEN "true" ELSE "false"
    /\ rpc' = "done"
    /\ UNCHANGED <<product_rows, row_index, detail_index, all_data, row_data,
                   extracted_data, drill_calls>>
    /\ UNCHANGED <<now, download_dir, folders, nextFile>>
    /\ rowFrame

NextRows ==
    \/ \E found \in BOOLEAN : ExtractStart(found)
    \/ \E findRaises \in BOOLEAN : ProcessProductRow(findRaises)
    \/ \E pd \in UNION {PolicyDataLists(pn) : pn \in PolicyNumbers}, raises \in BOOLEAN :
          ProcessDetailBox(pd, raises)
    \/ ProductRowDone
    \/ \E ok \in BOOLEAN : SaveExtractedData(ok)

\* the call for the client with identifier "1", whose folder exists
InitRows ==
    /\ InitDrillState
    /\ InitFsState
    /\ folders = {HarnessFolder}
    /\ InitWaitState
    /\ InitHarnessState
    /\ InitClaimObs
    /\ text_array = <<>>
    /\ InitBatchState
    /\ cpc = "products"
    /\ identification_number = HarnessId
    /\ fullname_text = NoName
    /\ identification_folder = HarnessFolder
    /\ attempt = 0
    /\ client_ret = FALSE
    /\ steps = <<>>
    /\ failed_at = "none"
    /\ result_row = TRUE
    /\ InitNoPage
    /\ InitNoElement
    /\ epc = "idle"
    /\ box_elements = NoBox
    /\ detail_data = <<>>
    /\ failed_passes = {}
    /\ rpc = "find"
    /\ product_rows \in ProductListings
    /\ row_index = 0
    /\ detail_index = 0
    /\ all_data = <<>>
    /\ row_data = <<>>
    /\ extracted_data = <<>>
    /\ drill_calls = <<>>
    /\ extract_ret = "none"

SpecRows == InitRows /\ [][NextRows]_vars

(***************************************************************************)
(* The drill-down on the page its tab shows: _click_product_details_tab    *)
(* and _find_policy_link_by_number read the page (lines 791-901).          *)
(*                                                                         *)
(* A text is a sequence of tokens; the product-details label and a policy  *)
(* number are one token each, so that "label in text" is "the token occurs *)
(* in the text".                                                           *)
(***************************************************************************)
\* HEBREW_TEXTS["product_details_tab"] (line 124)
ProductDetailsLabel == "pirut_mutzarim"

\* needle in text, for a needle of one token
Contains(text, needle) == needle \in Range(text)

\* an element a selector matches: its text, and the call that raises on it
\* ("none", "text" for element.text, "click" for the click)
PageElement(text, fails) == [text |-> text, fails |-> fails]

\* no element was clicked
NoPick == [selector |-> 0, index |-> 0]

\* if target_text in element_text (line 867)
ClicksElement(element_text) == Contains(element_text, ProductDetailsLabel)

\* the loops of lines 856-894 from the e-th element of the s-th selector on:
\* the element that was clicked, NoPick if the loops end without a click.
\* An exception inside a selector's try goes on with the next selector.
RECURSIVE ScanFrom(_, _, _)
ScanFrom(tabs, s, e) ==
    IF s > Len(tabs) THEN NoPick
    ELSE IF tabs[s].raises THEN ScanFrom(tabs, s + 1, 1)
    ELSE IF e > Len(tabs[s].elements) THEN ScanFrom(tabs, s + 1, 1)
    ELSE LET element == tabs[s].elements[e]
         IN IF element.fails = "text" THEN ScanFrom(tabs, s + 1, 1)
            ELSE IF ClicksElement(Strip(element.text))
            THEN IF element.fails = "click" THEN ScanFrom(tabs, s + 1, 1)
                 ELSE [selector |-> s, index |-> e]
            ELSE ScanFrom(tabs, s, e + 1)

\* the element _click_product_details_tab clicks
ClickedTab(tabs) == ScanFrom(tabs, 1, 1)

MatchesLink_Substring(link_text, n) == Contains(link_text, n)
\* if link_text == policy_number (line 818)
MatchesLink(link_text, n) == link_text = <<n>>

\* the loop of lines 816-820 from the i-th link on: the index of the link
\* returned, 0 for None; an exception ends the function with None (line 825)
RECURSIVE FindLinkFrom(_, _, _)
FindLinkFrom(policy_links, n, i) ==
    IF i > Len(policy_links) THEN 0
    ELSE IF policy_links[i].fails = "text" THEN 0
    ELSE IF MatchesLink(Strip(policy_links[i].text), n) THEN i
    ELSE FindLinkFrom(policy_links, n, i + 1)

\* the link _find_policy_link_by_number returns (0: None)
FoundLink(links, n) ==
    IF links.raises THEN 0 ELSE FindLinkFrom(links.elements, n, 1)

\* line 997 on the page
ClickProductDetailsTabOnPage ==
    ClickProductDetailsTab(ClickedTab(page.tabs) # NoPick)

\* lines 998-1000 on the page
FindPolicyLinkOnPage ==
    FindPolicyLinkByNumber(FoundLink(page.links, policy_number) # 0)

\* the drill-down up to its LOCATING_TAB step, and its end without the tab
NextTab ==
    \/ ClickProductDetailsTabOnPage
    \/ \E closeOk \in BOOLEAN :
         \E order \in WindowHandleOrders(
                IF closeOk THEN windows \ {current} ELSE windows) :
            CloseTabAndSwitch(closeOk, order)
    \/ \E closeOk \in BOOLEAN :
         \E order \in WindowHandleOrders(
                IF closeOk /\ Cardinality(windows) > 1 /\ current \in windows
                THEN windows \ {current} ELSE windows) :
            ExceptHandler(closeOk, order)
    \/ GetPolicyDataReturn

\* the drill-down from its LOCATING_LINK step on
NextLink ==
    \/ FindPolicyLinkOnPage
    \/ \E clickOk \in BOOLEAN : ClickPolicyLink(clickOk)
    \/ \E tabs_data \in TabsDataLists : ClickSpecificTabs(tabs_data)
    \/ \E closeOk \in BOOLEAN :
         \E order \in WindowHandleOrders(
                IF closeOk THEN windows \ {current} ELSE windows) :
            CloseTabAndSwitch(closeOk, order)
    \/ \E closeOk \in BOOLEAN :
         \E order \in WindowHandleOrders(
                IF closeOk /\ Cardinality(windows) > 1 /\ current \in windows
                THEN windows \ {current} ELSE windows) :
            ExceptHandler(closeOk, order)
    \/ GetPolicyDataReturn

\* elements the selectors of the product-details tab match
TabElements ==
    {PageElement(<<ProductDetailsLabel>>, "none"),
     PageElement(<<" ", ProductDetailsLabel, " ", "+">>, "none"),
     PageElement(<<"x">>, "none"),
     PageElement(<<ProductDetailsLabel>>, "click"),
     PageElement(<<ProductDetailsLabel>>, "text")}

\* the six selectors of lines 844-851
SelectorCount == 6

\* how many elements each selector matches, MaxTabElems in all at most
TabSizes ==
    {n \in [1..SelectorCount -> 0..MaxTabElems] :
        SumUpTo(n, SelectorCount) <= MaxTabElems}

\* what the selectors find: selector s matches the next n[s] of the elements,
\* and the find_elements of selector r raises (r = 0: of none)
TabScan(n, elements, r) ==
    LET found(s) ==
            [raises |-> s = r,
             elements |-> SubSeq(elements, SumUpTo(n, s - 1) + 1, SumUpTo(n, s))]
    IN <<found(1), found(2), found(3), found(4), found(5), found(6)>>

\* the page on which the first selector matches the tab alone
PlainTabs == TabScan([s \in 1..SelectorCount |-> IF s = 1 THEN 1 ELSE 0],
                     <<PageElement(<<ProductDetailsLabel>>, "none")>>, 0)

\* policy links of a page, seen from the drill-down for n
LinkElements(n) ==
    {PageElement(<<n>>, "none"),
     PageElement(<<" ", n, " ">>, "none"),
     PageElement(<<n, "0">>, "none"),
     PageElement(<<"9">>, "none"),
     PageElement(<<n>>, "text")}

\* what SELECTORS["policy_links"] finds, or find_elements raises
LinkLists(n) ==
    {[raises |-> r, elements |-> l] :
        r \in BOOLEAN,
        l \in UNION {[1..k -> LinkElements(n)] : k \in 0..MaxLinks}}

\* the page with the one link of n
PlainLinks(n) == [raises |-> FALSE, elements |-> <<PageElement(<<n>>, "none")>>]

\* the drill-down for a policy number has opened its tab from the one window
\* of the session and loaded the listing (lines 993-995)
InitOwnTab ==
    /\ windows = {1, 2}
    /\ current = 2
    /\ nextHandle = 3
    /\ policy_number \in PolicyNumbers
    /\ new_window = 2
    /\ returned = <<>>
    /\ attempts = 0
    /\ before_windows = {1}
    /\ before_current = 1
    /\ tab_created = 2
    /\ closed_by_attempt = {}
    /\ close_raised = FALSE
    /\ failed_step = "none"
    /\ InitFsState
    /\ folders = {HarnessFolder}
    /\ InitWaitState
    /\ InitHarnessState
    /\ InitClaimObs
    /\ InitNoBatch
    /\ tabs_extracted = <<>>
    /\ tabs_log = <<>>
    /\ InitNoExtraction
    /\ InitNoElement

\* line 997 is reached
InitTab ==
    /\ InitOwnTab
    /\ dpc = "click_tab"
    /\ policy_data = <<>>
    /\ policy_link = FALSE
    /\ tpc = "idle"
    /\ \E n \in TabSizes :
          \E elements \in [1..SumUpTo(n, SelectorCount) -> TabElements] :
             \E r \in 0..SelectorCount :
                page = [tabs |-> TabScan(n, elements, r),
                        links |-> PlainLinks(policy_number)]

SpecTab == InitTab /\ [][NextTab]_vars

\* line 998 is reached: the tab was clicked
InitLink ==
    /\ InitOwnTab
    /\ dpc = "find_link"
    /\ policy_data = <<>>
    /\ policy_link = FALSE
    /\ tpc = "idle"
    /\ page \in {[tabs |-> PlainTabs, links |-> l] : l \in LinkLists(policy_number)}

SpecLink == InitLink /\ [][NextLink]_vars

(***************************************************************************)
(* _click_specific_tabs on the policy page (lines 1141-1366): the liens    *)
(* tab and the loans tab are looked for, clicked and read, in this order.  *)
(*                                                                         *)
(* A line of the returned list is a record that keeps the tab it comes     *)
(* from: "blank" is "", "title" the section title, "row" the line          *)
(* "<label>: <value>" and "error" the line "ERROR - Failed to extract      *)
(* data".                                                                  *)
(***************************************************************************)
TabLine(tab, kind, label, value) ==
    [tab |-> tab, kind |-> kind, label |-> label, value |-> value]

\* the two header texts _extract_loans_data looks for (lines 1337, 1342),
\* the second one being "<balance> (₪)" with the suffix as one token
LoanExistsHeader == <<"haim_kayemet_halvaa">>

ShekelSuffix == " (NIS)"

LoanBalanceHeader == <<"yitra_letashlum", ShekelSuffix>>

\* the loop of lines 1250-1270 from the i-th row on: a row gives a line when
\* its label and its value are found and both have text
RECURSIVE LiensRowsFrom(_, _, _)
LiensRowsFrom(rows, i, extracted) ==
    IF i > Len(rows) THEN extracted
    ELSE LiensRowsFrom(rows, i + 1,
            IF rows[i].raises THEN extracted
            ELSE LET label_text == Strip(rows[i].label)
                     value_text == Strip(rows[i].value)
                 IN IF label_text # <<>> /\ value_text # <<>>
                    THEN Append(extracted,
                                TabLine("liens", "row", label_text, value_text))
                    ELSE extracted)

\* driver.find_element raises when the container is absent, and the handler
\* of lines 1276-1278 appends the placeholder
LiensDataAbsent == <<TabLine("liens", "error", <<>>, <<>>)>>

\* _extract_liens_data (lines 1214-1280)
ExtractLiensData(content) ==
    IF content.absent
    THEN LiensDataAbsent
    ELSE LiensRowsFrom(content.rows, 1,
                       <<TabLine("liens", "blank", <<>>, <<>>),
                         TabLine("liens", "title", <<>>, <<>>)>>)

\* the loop of lines 1318-1321 from the i-th header cell on
RECURSIVE HeadersFrom(_, _, _)
HeadersFrom(header_elements, i, headers) ==
    IF i > Len(header_elements) THEN headers
    ELSE LET header_text == Strip(header_elements[i])
         IN HeadersFrom(header_elements, i + 1,
                        IF header_text # <<>> THEN Append(headers, header_text)
                        ELSE headers)

\* the loop of lines 1334-1346 from the cell with cell_index on (from 0)
RECURSIVE LoanCellsFrom(_, _, _, _)
LoanCellsFrom(cells, headers, cell_index, loan_row_data) ==
    IF cell_index >= Len(cells) THEN loan_row_data
    ELSE LET cell_text == Strip(cells[cell_index + 1])
             with_exists ==
                 IF cell_text # <<>> /\ cell_index < Len(headers)
                    /\ headers[cell_index + 1] = LoanExistsHeader
                 THEN Append(loan_row_data, TabLine("loans", "row",
                                 headers[cell_index + 1], cell_text))
                 ELSE loan_row_data
             with_balance ==
                 IF cell_text # <<>> /\ cell_index < Len(headers)
                    /\ headers[cell_index + 1] = LoanBalanceHeader
                 THEN Append(with_exists, TabLine("loans", "row",
                                 RemoveAll(headers[cell_index + 1], ShekelSuffix),
                                 cell_text))
                 ELSE with_exists
         IN LoanCellsFrom(cells, headers, cell_index + 1, with_balance)

\* the loop of lines 1329-1354 from the i-th row on
RECURSIVE LoanRowsFrom(_, _, _, _)
LoanRowsFrom(rows, headers, i, extracted) ==
    IF i > Len(rows) THEN extracted
    ELSE LoanRowsFrom(rows, headers, i + 1,
            IF rows[i].raises THEN extracted
            ELSE LET loan_row_data == LoanCellsFrom(rows[i].cells, headers, 0, <<>>)
                 IN IF loan_row_data # <<>>
                    THEN extracted \o loan_row_data
                         \o <<TabLine("loans", "blank", <<>>, <<>>)>>
                    ELSE extracted)

\* _extract_loans_data (lines 1282-1366); an absent table makes find_element
\* raise, and the handler of lines 1362-1364 appends the placeholder
ExtractLoansData(content) ==
    IF content.absent
    THEN <<TabLine("loans", "error", <<>>, <<>>)>>
    ELSE LoanRowsFrom(content.rows,
                      HeadersFrom(content.header_elements, 1, <<>>), 1,
                      <<TabLine("loans", "blank", <<>>, <<>>),
                        TabLine("loans", "title", <<>>, <<>>)>>)

\* an entry of the log of steps
TabStep(tab, step) == [tab |-> tab, step |-> step]

\* the click of lines 1168 and 1190 is inside the one try of the function:
\* when it raises the handler of line 1209 is next, then the return
AfterClickRaised(tab) == "return"

\* lines 1162-1184 for the liens tab, lines 1186-1207 for the loans tab:
\* _find_tab_by_text, the click, _wait_for_table_data_loaded and the
\* extraction, which is called after the wait whatever the wait returned
ClickSubTab(tab) ==
    /\ dpc = "tabs"
    /\ tpc = tab
    /\ LET shown == page[tab]
       IN IF ~shown.found
          THEN /\ tabs_log' = tabs_log \o <<TabStep(tab, "find"),
                                             TabStep(tab, "not_found")>>
               /\ tpc' = IF tab = "liens" THEN "loans" ELSE "return"
               /\ UNCHANGED tabs_extracted
          ELSE IF shown.click_raises
          THEN /\ tabs_log' = tabs_log \o <<TabStep(tab, "find"),
                                             TabStep(tab, "click_raised")>>
               /\ tpc' = AfterClickRaised(tab)
               /\ UNCHANGED tabs_extracted
          ELSE /\ tabs_log' = tabs_log \o
                     <<TabStep(tab, "find"), TabStep(tab, "click"),
                       TabStep(tab, IF shown.loaded THEN "wait_loaded"
                                    ELSE "wait_timeout"),
                       TabStep(tab, "extract")>>
               /\ tabs_extracted' = tabs_extracted \o
                     (IF tab = "liens" THEN ExtractLiensData(shown.content)
                      ELSE ExtractLoansData(shown.content))
               /\ tpc' = IF tab = "liens" THEN "loans" ELSE "return"
    /\ UNCHANGED page
    /\ UNCHANGED <<drillVars, fsVars, waitVars, harnessVars, batchVars,
                   clientVars, claimObs, extractVars, rowVars, elemVars>>

\* lines 1162-1184
ClickLiensTab == ClickSubTab("liens")

\* lines 1186-1207
ClickLoansTab == ClickSubTab("loans")

\* return extracted_data (line 1212) and policy_data.extend(tabs_data)
\* (lines 1009-1010)
ClickSpecificTabsReturn ==
    /\ dpc = "tabs"
    /\ tpc = "return"
    /\ policy_data' = ExtendWithTabs(policy_data, tabs_extracted)
    /\ dpc' = "close"
    /\ tpc' = "done"
    /\ failed_step' = IF tabs_extracted = <<>> THEN "extract" ELSE failed_step
    /\ UNCHANGED <<windows, current, nextHandle, policy_number, new_window,
                   policy_link, returned, attempts, before_windows,
                   before_current, tab_created, closed_by_attempt, close_raised>>
    /\ UNCHANGED <<page, tabs_extracted, tabs_log>>
    /\ UNCHANGED <<fsVars, waitVars, harnessVars, batchVars, clientVars,
                   claimObs, extractVars, rowVars, elemVars>>

NextTabs ==
    \/ ClickLiensTab
    \/ ClickLoansTab
    \/ ClickSpecificTabsReturn

\* a row of the liens container: its label and value, or a search in it raises
LiensRow(label, value, raises) ==
    [label |-> label, value |-> value, raises |-> raises]

LiensRows ==
    {LiensRow(<<"l">>, <<" ", "v">>, FALSE),
     LiensRow(<<"l">>, <<>>, FALSE),
     LiensRow(<<>>, <<>>, TRUE)}

\* the PolicyConfiscationContent container: absent, or its rows
LiensContents ==
    {[absent |-> TRUE, rows |-> <<>>]}
    \cup {[absent |-> FALSE, rows |-> r] :
             r \in UNION {[1..k -> LiensRows] : k \in 0..MaxLienRows}}

\* texts of the header cells of the loans table
LoanHeaderTexts == {<<>>, LoanExistsHeader, LoanBalanceHeader, <<"h">>}

\* the text of the cell of row r in column c
CellText(r, c) == <<IndexStr(r), ".", IndexStr(c)>>

\* rows of a loans table of k columns: every cell has text, no cell has, or
\* reading the row raises
LoanRow(kind, r, k) ==
    [raises |-> kind = "raises",
     cells |-> [c \in 1..k |-> IF kind = "full" THEN CellText(r, c) ELSE <<>>]]

LoanRowKinds == {"full", "blank", "raises"}

\* the PolicyLoanGrid table: absent, or its header cells and its rows
LoansContents ==
    {[absent |-> TRUE, header_elements |-> <<>>, rows |-> <<>>]}
    \cup UNION {{[absent |-> FALSE, header_elements |-> h,
                  rows |-> [r \in 1..m |-> LoanRow(kinds[r], r, k)]] :
                    h \in [1..k -> LoanHeaderTexts],
                    kinds \in [1..m -> LoanRowKinds]} :
                k \in 0..MaxLoanCols, m \in 0..MaxLoanRows}

\* what the page shows for one of the two tabs: no tab with the label, a tab
\* whose click raises, or a tab whose table did or did not load in time
SubTabs(contents) ==
    {[found |-> FALSE, click_raises |-> FALSE, loaded |-> FALSE,
      content |-> c] : c \in {x \in contents : x.absent}}
    \cup {[found |-> TRUE, click_raises |-> TRUE, loaded |-> FALSE,
           content |-> c] : c \in {x \in contents : x.absent}}
    \cup {[found |-> TRUE, click_raises |-> FALSE, loaded |-> l,
           content |-> c] : l \in BOOLEAN, c \in contents}

\* the liens tab with one row, the loans tab with the two columns and one row
PlainLiens ==
    [found |-> TRUE, click_raises |-> FALSE, loaded |-> TRUE,
     content |-> [absent |-> FALSE,
                  rows |-> <<LiensRow(<<"l">>, <<" ", "v">>, FALSE)>>]]

PlainLoans ==
    [found |-> TRUE, click_raises |-> FALSE, loaded |-> TRUE,
     content |-> [absent |-> FALSE,
                  header_elements |-> <<LoanExistsHeader, LoanBalanceHeader>>,
                  rows |-> <<LoanRow("full", 1, 2)>>]]

\* policy pages: one of the two tabs is as the page may have it, the other
\* one is the plain one
PolicyPages ==
    {[liens |-> a, loans |-> PlainLoans] : a \in SubTabs(LiensContents)}
    \cup {[liens |-> PlainLiens, loans |-> b] : b \in SubTabs(LoansContents)}

\* the policy link was clicked and the header appended (lines 1003-1006)
InitTabs ==
    /\ InitOwnTab
    /\ dpc = "tabs"
    /\ policy_data = <<PolicyHeader(policy_number)>>
    /\ policy_link = TRUE
    /\ tpc = "liens"
    /\ page \in PolicyPages

SpecTabs == InitTabs /\ [][NextTabs]_vars

(***************************************************************************)
(* wait_for_element (page_operations.py, lines 25-74) and                  *)
(* ElementFinder.wait_for_element (saver_products_processor.py, lines      *)
(* 453-479), called by a step of the program.                              *)
(*                                                                         *)
(* WebDriverWait.until polls the page: a poll finds the element, finds     *)
(* nothing, or the driver raises something else than "no such element";    *)
(* polls that find nothing beyond the timeout end in TimeoutException.     *)
(***************************************************************************)
\* the two implementations
WaitImplementations == {"page_operations", "ElementFinder"}

\* by: By.ID or another strategy
ByStrategies == {"id", "css selector"}

\* an exception of until that is not TimeoutException: page_operations has no
\* handler for it (lines 27-32), ElementFinder returns None (lines 477-479)
AfterDriverError(impl) == IF impl = "ElementFinder" THEN "None" ELSE "raised"

\* the first diagnostic step after a timeout (lines 34-74): ElementFinder
\* logs and returns (lines 474-476)
AfterTimeout(impl) == IF impl = "ElementFinder" THEN "ret" ELSE "diag_info"

AfterDiagnostics_Raise(ok) == IF ok THEN "None" ELSE "raised"
\* "except Exception as debug_error" (lines 71-72), then "return None"
\* (line 74), whether the diagnostics were gathered or raised
AfterDiagnostics(ok) == "None"

\* one poll of WebDriverWait(driver, timeout).until(...)
WaitPollElement(seen) ==
    /\ wfe_pc = "poll"
    /\ IF seen = "present"
       THEN /\ wfe_ret' = "element"
            /\ wfe_pc' = "ret"
            /\ wfe_obs' = [wfe_obs EXCEPT !.present = TRUE]
            /\ UNCHANGED wfe_elapsed
       ELSE IF seen = "error"
       THEN /\ wfe_ret' = AfterDriverError(wfe_call.impl)
            /\ wfe_pc' = "ret"
            /\ wfe_obs' = [wfe_obs EXCEPT !.driver_error = TRUE]
            /\ UNCHANGED wfe_elapsed
       ELSE IF wfe_elapsed + 1 > wfe_call.timeout
       THEN /\ wfe_pc' = AfterTimeout(wfe_call.impl)
            /\ wfe_ret' = IF wfe_call.impl = "ElementFinder" THEN "None"
                          ELSE wfe_ret
            /\ wfe_obs' = [wfe_obs EXCEPT !.timed_out = TRUE]
            /\ wfe_elapsed' = wfe_elapsed + 1
       ELSE /\ wfe_elapsed' = wfe_elapsed + 1
            /\ UNCHANGED <<wfe_pc, wfe_ret, wfe_obs>>
    /\ UNCHANGED <<wfe_call, caller_step>>
    /\ UNCHANGED <<drillVars, fsVars, waitVars, harnessVars, batchVars,
                   clientVars, claimObs, extractVars, rowVars, pageVars>>

\* a diagnostic step of page_operations.wait_for_element, which raises or not
Diagnostic(at, next, ok) ==
    /\ wfe_pc = at
    /\ wfe_obs' = [wfe_obs EXCEPT !.diagnostics = Append(@, at),
                                  !.diag_failed = ~ok]
    /\ IF ok /\ next # "ret"
       THEN /\ wfe_pc' = next
            /\ UNCHANGED wfe_ret
       ELSE /\ wfe_pc' = "ret"
            /\ wfe_ret' = AfterDiagnostics(ok)
    /\ UNCHANGED <<wfe_call, wfe_elapsed, caller_step>>
    /\ UNCHANGED <<drillVars, fsVars, waitVars, harnessVars, batchVars,
                   clientVars, claimObs, extractVars, rowVars, pageVars>>

\* driver.current_url and driver.title (lines 36-37)
DiagnosePage(ok) ==
    Diagnostic("diag_info",
               IF wfe_call.by = "id" THEN "diag_similar" ELSE "diag_all", ok)

\* if by == By.ID: elements with similar IDs (lines 40-50)
DiagnoseSimilarIds(ok) == Diagnostic("diag_similar", "diag_all", ok)

\* elements with similar text content (lines 52-70)
DiagnoseSimilarContent(ok) == Diagnostic("diag_all", "ret", ok)

\* the caller takes the result: "if not element: return False", and an
\* exception of the call is caught by the caller's own handler, which
\* returns False (post_popup_actions.py lines 479-484 and 498-500,
\* saver_products_processor.py lines 1637-1646 and 1664-1668)
CallerTakesElement ==
    /\ wfe_pc = "ret"
    /\ wfe_pc' = "done"
    /\ caller_step' = IF wfe_ret = "element" THEN "goes_on" ELSE "returns_false"
    /\ UNCHANGED <<wfe_call, wfe_elapsed, wfe_ret, wfe_obs>>
    /\ UNCHANGED <<drillVars, fsVars, waitVars, harnessVars, batchVars,
                   clientVars, claimObs, extractVars, rowVars, pageVars>>

NextElement ==
    \/ \E seen \in {"present", "absent", "error"} : WaitPollElement(seen)
    \/ \E ok \in BOOLEAN : DiagnosePage(ok)
    \/ \E ok \in BOOLEAN : DiagnoseSimilarIds(ok)
    \/ \E ok \in BOOLEAN : DiagnoseSimilarContent(ok)
    \/ CallerTakesElement

\* a step of the program has called wait_for_element
InitElement ==
    /\ InitDrillState
    /\ InitFsState
    /\ folders = {HarnessFolder}
    /\ InitWaitState
    /\ InitHarnessState
    /\ InitClaimObs
    /\ InitNoBatch
    /\ InitNoPage
    /\ InitNoExtraction
    /\ wfe_pc = "poll"
    /\ wfe_call \in [impl : WaitImplementations, by : ByStrategies,
                     timeout : 1..MaxElemTimeout]
    /\ wfe_elapsed = 0
    /\ wfe_ret = NotReturned
    /\ wfe_obs = NoWaitObserved
    /\ caller_step = "waits"

SpecElement == InitElement /\ [][NextElement]_vars

(***************************************************************************)
(* Claims about the drill-down (checked under SpecDrill).                  *)
(***************************************************************************)
\* an attempt has finished and control is back at the caller
AttemptFinished == dpc = "idle" /\ attempts > 0

\* the attempt ran without a driver.close() raising: every failure it met is
\* one of opening the tab, loading the listing, finding the product-details
\* tab, finding the link, clicking it, extracting the sub-tabs
OnlyListedFailures == ~close_raised

\* C1: after every drill-down attempt, failing ones included, as many browser
\* windows are open as before the attempt: no tab the attempt opened stays open.
C1_NoTabLeft ==
    (AttemptFinished /\ OnlyListedFailures)
        => Cardinality(windows) = Cardinality(before_windows)

\* C2: after every drill-down attempt the active window is the window that
\* was active immediately before the attempt, whatever its position in the
\* handle list.
C2_ActiveWindowRestored ==
    (AttemptFinished /\ OnlyListedFailures) => current = before_current

\* C3: the window a drill-down selects as its new tab, and every window it
\* closes, is not among the handles that existed before its open request.
C3_SelectsOwnTab ==
    /\ (new_window # None => new_window \notin before_windows)
    /\ closed_by_attempt \cap before_windows = {}

\* C4: a finished attempt for policy number N returned the empty list or a
\* list whose first line is the header line of N, also when a failure was
\* caught after the header had been appended.
C4_EmptyOrHeaderFirst ==
    AttemptFinished =>
        \/ returned = <<>>
        \/ returned[1] = PolicyHeader(policy_number)

\* C4 witness: close raised after header and tab lines were appended, and the
\* attempt returned them
C4_Witness ==
    /\ AttemptFinished
    /\ close_raised
    /\ Len(returned) > 1
    /\ returned[1] = PolicyHeader(policy_number)

(***************************************************************************)
(* Claims about PDFManager (checked under SpecPdf).                        *)
(***************************************************************************)
\* C9: wait_for_new_pdf_download returns only a file that matches *.pdf, was
\* absent from the directory when the call started, was seen by a later poll
\* and has no in-progress name; when no such file appeared during the call
\* (for instance only a .crdownload file existed) it returns None.
C9_ReturnsOnlyNewFinishedPdf ==
    wpc = "ret" =>
        /\ downloaded_pdf # NoFile =>
              /\ Last(downloaded_pdf) = "pdf"
              /\ downloaded_pdf \notin dir_at_call
              /\ downloaded_pdf \in current_files
              /\ downloaded_pdf \in appeared
              /\ ~IsInProgress(downloaded_pdf)
        /\ appeared = {} => downloaded_pdf = NoFile

\* C9 witness: a finished PDF was already present when the call started and
\* the call returned another file, which finished during the call
C9_Witness ==
    /\ wpc = "ret"
    /\ downloaded_pdf # NoFile
    /\ \E n \in dir_at_call : Last(n) = "pdf"

\* C10: a claim that succeeds puts exactly one file, the observed one, at the
\* returned target path and removes it from the download directory; a second
\* claim for the same source path, now gone, returns None and leaves the
\* client folder unchanged.
C10_ClaimOnceThenNone ==
    [][ /\ (hpc = "waiting" /\ hpc' = "claimed" /\ moved_pdf' # NoFile) =>
              /\ Cardinality({g \in client_files' :
                                <<g.folder, g.name>> = moved_pdf'}) = 1
              /\ \E f \in download_dir :
                    /\ f.name = claim_src'
                    /\ [folder |-> moved_pdf'[1], name |-> moved_pdf'[2],
                        content |-> f.content] \in client_files'
              /\ ~PathExists(download_dir', claim_src')
        /\ (hpc = "claimed" /\ hpc' = "claimed_again"
              /\ ~PathExists(download_dir, claim_src)) =>
              /\ moved_again' = NoFile
              /\ client_files' = client_files
      ]_vars

\* C10 witness: the first claim moved the file and the second claim for the
\* same, now missing, source returned None
C10_Witness ==
    /\ hpc = "claimed_again"
    /\ moved_pdf # NoFile
    /\ ~src_at_again
    /\ moved_again = NoFile

(***************************************************************************)
(* Claims about the batch loop (checked under SpecBatch, SpecBatchFair).   *)
(***************************************************************************)
IsPrefix(s, t) == Len(s) <= Len(t) /\ s = SubSeq(t, 1, Len(s))

RECURSIVE CountTrue(_)
CountTrue(seq) ==
    IF seq = <<>> THEN 0
    ELSE (IF seq[1] THEN 1 ELSE 0) + CountTrue(Tail(seq))

\* C5: process_client is called once per list entry, in list order and
\* without a retry: the identifiers it was called with are always the list's
\* first entries, each call's result is taken before the next call, and
\* whatever the clients return (True, False, False after catching a raise)
\* the loop eventually reaches the end of the list with every entry called.
C5_EachEntryOnceInOrder ==
    /\ [](/\ IsPrefix(calls, text_array)
          /\ Len(results) = IF bpc = "client" THEN Len(calls) - 1
                            ELSE Len(calls))
    /\ <>(/\ bpc = "done"
          /\ calls = text_array
          /\ Len(results) = Len(text_array))

\* C5 witness: a full-length batch ended after its first client raised in
\* mkdir (caught, False) and its second client returned True
C5_Witness ==
    /\ bpc = "done"
    /\ Len(text_array) = MaxClients
    /\ calls = text_array
    /\ searches[1] /\ ~results[1] /\ client_folder[1] = NoFolder
    /\ results[2]

\* C6: the count reported at the end of a batch is the number of clients
\* for which process_client returned True; in a batch of 3 whose second
\* client's search timed out and whose other clients succeeded, the report is
\* 2 of 3, the client folders that exist are those of the first and the third
\* client, and the function returned normally.
C6_CountsTrueResults ==
    /\ successful_count = CountTrue(results)
    /\ (bpc = "done" /\ text_array # <<>>) =>
          /\ reported = <<CountTrue(results), Len(text_array)>>
          /\ batch_result \in {"True", "False"}
    /\ (/\ bpc = "done"
        /\ Len(text_array) = 3
        /\ searches = <<TRUE, FALSE, TRUE>>
        /\ results[1] /\ results[3]) =>
          /\ reported = <<2, 3>>
          /\ client_folder[1] # NoFolder
          /\ client_folder[2] = NoFolder
          /\ client_folder[3] # NoFolder
          /\ folders = {client_folder[1], client_folder[3]}
          /\ batch_result = "True"

\* C6 witness: the 3-identifier batch whose second search timed out ended
C6_Witness ==
    /\ bpc = "done"
    /\ searches = <<TRUE, FALSE, TRUE>>
    /\ results = <<TRUE, FALSE, TRUE>>
    /\ reported = <<2, 3>>

(***************************************************************************)
(* Claims about one client's pipeline (checked under SpecClient,           *)
(* SpecClientFair).                                                        *)
(***************************************************************************)
\* C7: the steps attempted for a client are always the first steps of the
\* fixed order search, name, details, tab, reports, products, pdf_icon,
\* events; a step that failed ended the processing right there with False,
\* and processing that ended without a failed step went through every step.
C7_StepsInOrder ==
    /\ IsPrefix(steps, StepOrder)
    /\ failed_at # "none" =>
          /\ cpc = "return"
          /\ ~client_ret
          /\ steps # <<>>
          /\ Last(steps) = failed_at
    /\ (cpc = "return" /\ failed_at = "none") =>
          /\ steps = StepOrder
          /\ client_ret

\* C7 witness: the sub-tab was not found and the client ended after four steps
C7_Witness ==
    /\ cpc = "return"
    /\ failed_at = "tab"
    /\ steps = <<"search", "name", "details", "tab">>

\* C8: a download wait never lasts longer than its timeout, and whatever the
\* portal and the browser do with the download directory, the client's
\* processing and the batch end with the final success-count report.
C8_WaitsBoundedBatchEnds ==
    /\ [](wpc # "idle" => now - start_time <= WaitTimeout)
    /\ <>(/\ bpc = "done"
          /\ cpc = "idle"
          /\ reported = <<successful_count, Len(text_array)>>)

\* C8 witness: the batch ended with its report although a requested
\* download never finished, so at least one wait ran into its timeout
C8_Witness ==
    /\ bpc = "done"
    /\ reported = <<1, 1>>
    /\ \E f \in download_dir : IsInProgress(f.name)

(***************************************************************************)
(* Claims about the wait-and-claim steps of a client (SpecClient).         *)
(***************************************************************************)
\* C11: no file is moved into a client folder twice, and a file that was in
\* the download directory when a wait-and-claim step ended (its move failed,
\* or the step did not claim it) is not moved by a later wait-and-claim step.
C11_ClaimedOnceNeverLater ==
    \A i \in DOMAIN claimed_log :
        /\ ~claimed_log[i].was_left
        /\ \A j \in DOMAIN claimed_log :
              claimed_log[i].content = claimed_log[j].content => i = j

\* C12: two successful claims of one client never get the same target path,
\* also when identifier and detected keyword are the same, and every file a
\* claim put into the client folder is still there under its target name.
C12_TargetNamesUnique ==
    \A i \in DOMAIN claimed_log :
        /\ \A j \in DOMAIN claimed_log :
              claimed_log[i].target = claimed_log[j].target => i = j
        /\ [folder |-> claimed_log[i].target[1],
            name |-> claimed_log[i].target[2],
            content |-> claimed_log[i].content] \in client_files

\* C12 witness: two report claims of the same client with the same detected
\* keyword
C12_Witness ==
    /\ Len(claimed_log) = 2
    /\ claimed_log[1].target[2].prefix = claimed_log[2].target[2].prefix
    /\ claimed_log[1].target[2].idn = claimed_log[2].target[2].idn
    /\ claimed_log[1].target[2].keyword = claimed_log[2].target[2].keyword

(***************************************************************************)
(* Claims about create_identification_folder (checked under SpecFolder).   *)
(***************************************************************************)
\* C13: the folder name made from a display name has one character per
\* character of the name, '_' where the name has one of / \ : * ? " < > |
\* and the name's own character everywhere else, so it contains none of the
\* nine; for None and for the empty name it is 'ID_' followed by the identifier.
C13_FolderNameSanitized ==
    identification_folder # NoFolder =>
        IF Truthy(fullname_text)
        THEN /\ Len(identification_folder) = Len(fullname_text.text)
             /\ \A i \in 1..Len(identification_folder) :
                   /\ identification_folder[i] \notin InvalidChars
                   /\ identification_folder[i] =
                         IF fullname_text.text[i] \in InvalidChars THEN "_"
                         ELSE fullname_text.text[i]
        ELSE identification_folder = <<"I", "D", "_">> \o identification_number

\* C13 witness: a folder was made for a name that has a replaced character
\* next to a kept one
C13_Witness ==
    /\ identification_folder # NoFolder
    /\ fullname_text = SomeName(<<"a", "?">>)

\* C14 as stated: the folder made for the display name 'Jane Doe' is named
\* 'Jane_Doe'.
C14_JaneDoeUnderscore ==
    (identification_folder # NoFolder /\ fullname_text = SomeName(JaneDoe))
        => identification_folder = <<"J", "a", "n", "e", "_", "D", "o", "e">>

\* C14 amended: the folder made for the display name 'Jane Doe' is named
\* 'Jane Doe'; the space is not one of the replaced characters.
C14_JaneDoeSpaceKept ==
    (identification_folder # NoFolder /\ fullname_text = SomeName(JaneDoe))
        => identification_folder = JaneDoe

\* C14 witness: the folder for 'Jane Doe' was made
C14_Witness ==
    /\ fullname_text = SomeName(JaneDoe)
    /\ identification_folder \in folders

(***************************************************************************)
(* Claims about the client folder (checked under SpecBatch).               *)
(***************************************************************************)
\* C15: the client being processed has a folder only if its search
\* succeeded and the table showed a result row for it.
C15_FolderOnlyWithResult ==
    (bpc = "client" /\ client_folder[index] # NoFolder)
        => (searches[index] /\ result_row)

(***************************************************************************)
(* Claims about the report lines of a client (checked under SpecRows).     *)
(***************************************************************************)
\* in a list of lines, all output of a box stands together and in order:
\* labeled lines, then drill-down lines, then the blank line that ends it
PerBoxOrder(lines) ==
    /\ \A i, j \in 1..Len(lines) :
          (i < j /\ lines[i].row = lines[j].row) => lines[i].box <= lines[j].box
    /\ \A i, j \in 1..Len(lines) :
          (i < j /\ lines[i].row = lines[j].row /\ lines[i].box = lines[j].box
                 /\ lines[i].box > 0)
             => /\ lines[i].kind # "blank"
                /\ lines[i].kind \in {"policy_header", "policy_line"}
                      => lines[j].kind \in {"policy_header", "policy_line", "blank"}
    /\ \A i \in 1..Len(lines) :
          lines[i].kind \in {"policy_header", "policy_line"} =>
             /\ HasPolicyNumber(product_rows[lines[i].row].boxes[lines[i].box])
             /\ \E j \in (i + 1)..Len(lines) :
                   /\ lines[j].kind = "blank"
                   /\ lines[j].row = lines[i].row
                   /\ lines[j].box = lines[i].box

\* C16: in the lines of a product row, the drill-down lines of a box whose
\* record has the key 'element_4' stand right after that box's labeled
\* lines and before its blank line, and all output of box i stands before
\* all output of box i+1, in the row's list and in the report's list.
C16_DrillDownSplicedPerBox ==
    /\ PerBoxOrder(all_data)
    /\ PerBoxOrder(extracted_data)

\* C16 witness: the report holds a box with a labeled line, drill-down
\* lines and its blank line, followed by the lines of the row's next box
C16_Witness ==
    /\ rpc = "done"
    /\ \E i, j, k, l \in 1..Len(extracted_data) :
          /\ i < j /\ j < k /\ k < l
          /\ extracted_data[i].kind = "label"
          /\ extracted_data[j].kind = "policy_header"
          /\ extracted_data[k].kind = "blank"
          /\ extracted_data[i].box = extracted_data[j].box
          /\ extracted_data[j].box = extracted_data[k].box
          /\ extracted_data[l].row = extracted_data[k].row
          /\ extracted_data[l].box = extracted_data[k].box + 1

\* no record of any box of any row has the key 'element_4'
NoPolicyNumbers ==
    \A r \in 1..Len(product_rows) :
       \A b \in 1..Len(product_rows[r].boxes) :
          ~HasPolicyNumber(product_rows[r].boxes[b])

\* the report's lines are one section per product row, in row order, each
\* starting with the row's header line
OneSectionPerRow ==
    /\ \A i, j \in 1..Len(extracted_data) :
          i < j => extracted_data[i].row <= extracted_data[j].row
    /\ \A i \in 1..Len(extracted_data) :
          extracted_data[i].row \in 1..Len(product_rows)
    /\ \A r \in 1..Len(product_rows) :
          \E i \in 1..Len(extracted_data) :
             /\ extracted_data[i].kind = "product"
             /\ extracted_data[i].row = r
             /\ \A j \in 1..Len(extracted_data) :
                   extracted_data[j].row = r =>
                      /\ i <= j
                      /\ extracted_data[j].kind = "product" => j = i

NoPolicyHeader ==
    \A i \in 1..Len(extracted_data) : extracted_data[i].kind # "policy_header"

\* the assembled reports in the client's folder
ReportFiles ==
    {f \in client_files :
        f.folder = identification_folder /\ f.name.prefix = "ikulim_halvaot"}

\* C17 as stated: when no record has the key 'element_4', no drill-down is
\* attempted, there is no policy-header line, the report's lines are one
\* section per product row in row order, each starting with the row's
\* header, and exactly one assembled report is written to the client's
\* folder.
C17_NoDrillDownOneReport ==
    NoPolicyNumbers =>
        /\ drill_calls = <<>>
        /\ NoPolicyHeader
        /\ rpc = "done" => (OneSectionPerRow /\ Cardinality(ReportFiles) = 1)

\* C17 amended: when no record has the key 'element_4', no drill-down is
\* attempted and there is no policy-header line; when the listing was found
\* with at least one row and the document was written (the call returned
\* True), the lines are one section per row in row order, each starting
\* with the row's header, and exactly one assembled report is in the
\* client's folder; when the call returned False, none is.
C17_NoDrillDownOneReportIfWritten ==
    NoPolicyNumbers =>
        /\ drill_calls = <<>>
        /\ NoPolicyHeader
        /\ (rpc = "done" /\ extract_ret = "true")
              => (OneSectionPerRow /\ Cardinality(ReportFiles) = 1)
        /\ (rpc = "done" /\ extract_ret = "false")
              => Cardinality(ReportFiles) = 0

\* C17 witness: a listing of two rows without any 'element_4' was written
\* as a report that holds a labeled line
C17_Witness ==
    /\ NoPolicyNumbers
    /\ rpc = "done"
    /\ extract_ret = "true"
    /\ Len(product_rows) = 2
    /\ \E i \in 1..Len(extracted_data) : extracted_data[i].kind = "label"
    /\ Cardinality(ReportFiles) = 1

\* place of a label in the order company name, product type, status,
\* total savings
LabelRank(label) ==
    CASE label = "shem_hevra_menahelet" -> 1
      [] label = "sug_mutzar" -> 2
      [] label = "status" -> 3
      [] label = "sahak_hisahon" -> 4

\* C21: the labeled lines of a detail box stand in the order company name,
\* product type, status, total savings, whatever the order of the keys in
\* the box's record.
C21_LabelsInFixedOrder ==
    \A i, j \in 1..Len(extracted_data) :
       (/\ i < j
        /\ extracted_data[i].kind = "label"
        /\ extracted_data[j].kind = "label"
        /\ extracted_data[i].row = extracted_data[j].row
        /\ extracted_data[i].box = extracted_data[j].box)
          => LabelRank(extracted_data[i].text[1]) < LabelRank(extracted_data[j].text[1])

\* the rows were processed: the report's lines are complete
ReportAssembled == rpc = "save" \/ (rpc = "done" /\ extracted_data # <<>>)

PassesRun ==
    {p \in Range(PassOrder) :
        /\ p \notin failed_passes
        /\ epc # "idle"
        /\ (epc = "done" \/ PassNumber(p) < PassNumber(epc))}

\* the n-th element of pass p was read without a raise and has visible text
Stored(p, n) ==
    /\ box_elements[p][n].fails = "none"
    /\ \E i \in 1..Len(box_elements[p][n].text) : box_elements[p][n].text[i] # " "

\* the stores made by the passes that ran: pass and position of the element
Stores ==
    {w \in Range(PassOrder) \X (1..MaxElems + 1) :
        /\ w[1] \in PassesRun
        /\ w[2] <= Len(box_elements[w[1]])
        /\ Stored(w[1], w[2])}

\* the key and the value a store writes
StoreKey(w) ==
    IF w[1] = "basic"
    THEN GenerateElementKey(box_elements[w[1]][w[2]], w[2] - 1)
    ELSE IF box_elements[w[1]][w[2]].name # <<>>
    THEN box_elements[w[1]][w[2]].name
    ELSE PositionalKey(PassStem(w[1]), w[2] - 1)

StoreValue(w) == Strip(box_elements[w[1]][w[2]].text)

\* store w is made before store x
StoreBefore(w, x) ==
    \/ PassNumber(w[1]) < PassNumber(x[1])
    \/ (w[1] = x[1] /\ w[2] < x[2])

\* C18: every record of extract_all_detail_box_data has unique keys and no
\* value that is empty or whitespace-only, and a key derived by several
\* elements or passes holds the value written last, the passes running in
\* the order generic text, currency, percentage, link.
C18_UniqueKeysLastWriteWins ==
    /\ \A i, j \in 1..Len(detail_data) :
          i # j => detail_data[i].key # detail_data[j].key
    /\ \A i \in 1..Len(detail_data) :
          \E c \in 1..Len(detail_data[i].value) : detail_data[i].value[c] # " "
    /\ \A i \in 1..Len(detail_data) :
          \E w \in Stores :
             /\ StoreKey(w) = detail_data[i].key
             /\ StoreValue(w) = detail_data[i].value
             /\ \A x \in Stores :
                   StoreKey(x) = StoreKey(w) => (x = w \/ StoreBefore(x, w))

\* C18 witness: the call returned after two passes stored different values
\* under one key
C18_Witness ==
    /\ epc = "done"
    /\ \E w, x \in Stores :
          /\ StoreBefore(w, x)
          /\ w[1] # x[1]
          /\ StoreKey(w) = StoreKey(x)
          /\ StoreValue(w) # StoreValue(x)

\* the replacement of spaces and hyphens the claim C19 describes
Underscored(t) ==
    [i \in 1..Len(t) |-> IF t[i] = " " \/ t[i] = "-" THEN "_" ELSE t[i]]

\* a prefix removed from a string that starts with it
WithoutPrefix(t, pre) == IF t # <<>> /\ t[1] = pre THEN Tail(t) ELSE t

\* the basic pass ran and the currency pass is next
AfterBasicPass == epc = "currency" /\ "basic" \notin failed_passes

\* positions of the basic elements that were read and have visible text
BasicStored == {n \in 1..Len(box_elements["basic"]) : Stored("basic", n)}

C20_FailuresLoseNothingElse ==
    /\ epc \in Range(PassOrder) \cup {"done"}
    /\ \A p \in Range(PassOrder) \ failed_passes :
          (epc = "done" \/ PassNumber(p) < PassNumber(epc)) =>
              \A n \in 1..Len(box_elements[p]) :
                  Stored(p, n) => StoreKey(<<p, n>>) \in DictKeys(detail_data)

\* C20 witness: the call returned after a pass failed, and a later pass with
\* a failing element stored its other element
C20_Witness ==
    /\ epc = "done"
    /\ \E f \in failed_passes :
          \E p \in Range(PassOrder) \ failed_passes :
             /\ PassNumber(f) < PassNumber(p)
             /\ \E n \in 1..Len(box_elements[p]) :
                   box_elements[p][n].fails # "none"
             /\ \E n \in 1..Len(box_elements[p]) : Stored(p, n)
             /\ detail_data # <<>>

(***************************************************************************)
(* Claims about the drill-down's reading of its page (checked under        *)
(* SpecTab and SpecLink).                                                  *)
(***************************************************************************)
\* the LOCATING_TAB step ended with a click
TabClicked == dpc # "click_tab" /\ ClickedTab(page.tabs) # NoPick

\* the trimmed text of the element a pick names
PickText(p) == Strip(page.tabs[p.selector].elements[p.index].text)

\* the pick p comes before the pick q in the order of the scan
ScannedBefore(p, q) ==
    \/ p.selector < q.selector
    \/ (p.selector = q.selector /\ p.index < q.index)

\* no search and no element of the tab scan raises
TabScanClean ==
    \A s \in 1..Len(page.tabs) :
        /\ ~page.tabs[s].raises
        /\ \A e \in 1..Len(page.tabs[s].elements) :
              page.tabs[s].elements[e].fails = "none"

\* C23: the element the LOCATING_TAB step clicks has a text equal to the
\* product-details label, and on a page where nothing raises it is the first
\* such element in the order of the selectors; an element whose text only
\* contains the label is not clicked.
C23_ClickedTabTextEqualsLabel ==
    TabClicked =>
        LET p == ClickedTab(page.tabs)
        IN /\ PickText(p) = <<ProductDetailsLabel>>
           /\ TabScanClean =>
                 \A s \in 1..Len(page.tabs) :
                     \A e \in 1..Len(page.tabs[s].elements) :
                         LET q == [selector |-> s, index |-> e]
                         IN ScannedBefore(q, p) =>
                               PickText(q) # <<ProductDetailsLabel>>

\* the links of the page whose trimmed text is the policy number
ExactLinks ==
    {i \in 1..Len(page.links.elements) :
        Strip(page.links.elements[i].text) = <<policy_number>>}

\* the LOCATING_LINK step was taken
LinkSearched == dpc \notin {"click_tab", "find_link"} /\ failed_step # "tab"

C24_WitnessNone ==
    /\ AttemptFinished
    /\ failed_step = "link"
    /\ ~close_raised
    /\ Len(page.links.elements) = 1
    /\ Contains(page.links.elements[1].text, policy_number)
    /\ ExactLinks = {}

(***************************************************************************)
(* Claims about the two sub-tabs of the policy page (checked under         *)
(* SpecTabs).                                                              *)
(***************************************************************************)
\* _click_specific_tabs has returned and its lines are in policy_data
TabsReturned == tpc = "done"

\* the lines of policy_data after the header line
DrillDownTabLines == SubSeq(policy_data, 2, Len(policy_data))

\* C25: once the header line of the policy is emitted, a sub-tab whose
\* content container or table is absent adds nothing to the lines of the
\* drill-down: no 'ERROR - Failed to extract data' line is among them.
C25_AbsentSectionOmitted ==
    (TabsReturned /\ policy_data[1] = PolicyHeader(policy_number)) =>
        /\ \A i \in 1..Len(DrillDownTabLines) :
              DrillDownTabLines[i].kind # "error"
        /\ \A tab \in {"liens", "loans"} :
              page[tab].content.absent =>
                 \A i \in 1..Len(DrillDownTabLines) :
                    DrillDownTabLines[i].tab # tab

\* the step was taken for the tab
Logged(tab, step) ==
    \E i \in 1..Len(tabs_log) : tabs_log[i] = TabStep(tab, step)

\* C26: a sub-tab that was found and clicked is extracted whether its wait
\* ended loaded or timed out; the loans tab is looked for whatever happened
\* at the liens tab; all liens lines come before all loans lines.
C26_BothTabsAttemptedLiensFirst ==
    TabsReturned =>
        /\ \A tab \in {"liens", "loans"} :
              (Logged(tab, "wait_loaded") \/ Logged(tab, "wait_timeout"))
                 => Logged(tab, "extract")
        /\ Logged("loans", "find")
        /\ \A i, j \in 1..Len(tabs_extracted) :
              (tabs_extracted[i].tab = "liens"
               /\ tabs_extracted[j].tab = "loans") => i < j

\* the header cells and the rows of the loans table of the page
LoanHeaderCells == page["loans"].content.header_elements

LoanTableRows == page["loans"].content.rows

\* the header text under which a line with this label is emitted
HeaderOfLabel(label) ==
    IF label = LoanExistsHeader THEN LoanExistsHeader ELSE LoanBalanceHeader

\* the "row" lines the loans tab gave
LoanRowLines ==
    {i \in 1..Len(tabs_extracted) :
        tabs_extracted[i].tab = "loans" /\ tabs_extracted[i].kind = "row"}

\* C27: every value the loans extraction emits under one of the two labels is
\* the text of a cell that stands, in its row, in a column whose header text
\* is the header of that label; and every such cell with text, of a row that
\* could be read, is emitted.
C27_LoanValueFromLabelledColumn ==
    (TabsReturned /\ Logged("loans", "extract")
     /\ ~page["loans"].content.absent) =>
        /\ \A i \in LoanRowLines :
              \E r \in 1..Len(LoanTableRows), c \in 1..Len(LoanHeaderCells) :
                 /\ tabs_extracted[i].value = CellText(r, c)
                 /\ Strip(LoanHeaderCells[c])
                       = HeaderOfLabel(tabs_extracted[i].label)
        /\ \A r \in 1..Len(LoanTableRows), c \in 1..Len(LoanHeaderCells) :
              (/\ ~LoanTableRows[r].raises
               /\ Strip(LoanTableRows[r].cells[c]) # <<>>
               /\ Strip(LoanHeaderCells[c])
                     \in {LoanExistsHeader, LoanBalanceHeader})
                 => \E i \in LoanRowLines :
                       tabs_extracted[i].value = CellText(r, c)

(***************************************************************************)
(* Claims about the report attempts of one client (checked under           *)
(* SpecClient).                                                            *)
(***************************************************************************)
\* step 4 of the current client is over
ReportsOver ==
    /\ "reports" \in Range(steps)
    /\ cpc \notin {"reports", "report_attempt", "report_clicked", "report_wait"}

\* C28: a client whose PDF button was found gets exactly two report attempts,
\* the first for the checkbox with id 'checkYtrotPitzuim' and the second for
\* the 'compensationReportChecked' checkbox, whatever the first attempt came
\* to; an attempt waits for a download at most once and claims at most once,
\* and an attempt whose download was not detected is not made again.  Without
\* the button no attempt is made.
C28_TwoReportAttempts ==
    /\ Len(report_log) <= 2
    /\ \A i \in 1..Len(report_log) :
          /\ report_log[i].attempt = i - 1
          /\ report_log[i].waits <= 1
          /\ report_log[i].claims <= report_log[i].waits
          /\ (report_log[i].outcome = "not_detected") =>
                (report_log[i].waits = 1 /\ report_log[i].claims = 0)
          /\ (report_log[i].checkbox # NoCheckbox) =>
                report_log[i].checkbox.value =
                   (IF i = 1 THEN "checkYtrotPitzuim"
                    ELSE "[ng-model=\"compensationReportChecked\"]")
    /\ (report_log # <<>>) => pdf_button
    /\ (ReportsOver /\ pdf_button) => Len(report_log) = 2
    /\ (ReportsOver /\ ~pdf_button) => report_log = <<>>

\* the first attempt failed at a click, the second one selected its checkbox,
\* waited once without a download being detected, and step 4 is over
C28_Witness ==
    /\ ReportsOver
    /\ pdf_button
    /\ Len(report_log) = 2
    /\ report_log[1].outcome = "failed"
    /\ report_log[2].outcome = "not_detected"
    /\ report_log[2].checkbox.by = "css"

(***************************************************************************)
(* Claims about wait_for_element (checked under SpecElement).              *)
(***************************************************************************)
\* the call has ended
WaitReturned == wfe_pc \in {"ret", "done"}

EveryClientSucceeded ==
    /\ Len(results) = Len(text_array)
    /\ \A i \in 1..Len(results) : results[i]

\* C30: for a list that is not empty, handle_post_popup_actions returns True
\* exactly when process_client was called for every identifier of the list
\* and returned True each time, and False otherwise.
C30_TrueIffEveryClientSucceeded ==
    (bpc = "done" /\ text_array # <<>>) =>
        /\ batch_result \in {"True", "False"}
        /\ (batch_result = "True") <=> EveryClientSucceeded

\* C31: called with an empty identifier list, handle_post_popup_actions
\* returns False: process_client is never called, no step of a client runs
\* and no client folder or client file comes to exist.
C31_EmptyListFalseNothingDone ==
    (text_array = <<>>) =>
        /\ bpc \in {"start", "done"}
        /\ bpc = "done" => batch_result = "False"
        /\ calls = <<>> /\ results = <<>> /\ searches = <<>>
        /\ cpc = "idle" /\ steps = <<>>
        /\ folders = {} /\ client_files = {}
        /\ reported = <<>>

C31_Witness == text_array = <<>> /\ bpc = "done" /\ batch_result = "False"

(***************************************************************************)
(* Claims about the result of process_client and of step 5 (checked under  *)
(* SpecClient).                                                            *)
(***************************************************************************)
\* process_client is about to hand its result to the loop
ClientReturning == bpc = "client" /\ cpc = "return"

\* C32: process_client returns True exactly when the search step succeeded,
\* the detail view and its sub-tab were reached and nothing raised in between
\* (the folder was made); what report generation, the download claims, the
\* product extraction and the PDF-icon claim came to is not in the result.
C32_TrueIffSearchAndNavigation ==
    ClientReturning =>
        /\ client_ret <=> /\ searches[index]
                          /\ "tab" \in Range(steps)
                          /\ failed_at \notin {"name", "details", "tab"}
        /\ client_ret => "events" \in Range(steps)
        /\ failed_at \in {"none", "search", "name", "details", "tab"}

\* C32 witness: True is returned for a client whose first report could not be
\* moved, whose second report was not detected, whose product extraction
\* failed and whose PDF-icon step returned False: its folder is empty
C32_Witness ==
    /\ ClientReturning
    /\ client_ret
    /\ Len(report_log) = 2
    /\ report_log[1].outcome = "move_failed"
    /\ report_log[2].outcome = "not_detected"
    /\ saver_extracted = "False"
    /\ saver_ret = "False"
    /\ client_files = {}

(***************************************************************************)
(* Claims about the page a client starts from (checked under SpecBatch).   *)
(***************************************************************************)
\* C33: when the search step of the client at list position k+1 begins, the
\* last driver.get of the main window was the one to Events/InfoRequest that
\* the client at position k made, whatever client k came to.
C33_SearchStartsFromEventsPage ==
    \A k \in 2..Len(nav_at_search) :
        nav_at_search[k] = [to |-> "events", client |-> k - 1]

(***************************************************************************)
(* Claims about process_saver_products_with_navigation (checked under      *)
(* SpecClient).                                                            *)
(***************************************************************************)
\* the PDF-icon step of the current client moved a file into its folder
IconClaimed ==
    \E i \in DOMAIN claimed_log :
        /\ claimed_log[i].step.kind = "icon"
        /\ claimed_log[i].step.client = index

\* C34: once the product extraction has returned, with True or with False,
\* the PDF-icon step is made next, and what
\* process_saver_products_with_navigation returns is True exactly when that
\* step found the icon, detected a download and moved it into the folder.
C34_IconStepAlwaysAndDecides ==
    /\ (saver_extracted # "none" /\ cpc # "pdf_icon") =>
           "pdf_icon" \in Range(steps)
    /\ (saver_ret # "none") =>
           /\ "pdf_icon" \in Range(steps)
           /\ saver_extracted \in {"True", "False"}
           /\ (saver_ret = "True") <=> IconClaimed
    /\ (cpc \in {"events", "return"} /\ "products" \in Range(steps)) =>
           saver_ret \in {"True", "False"}

\* C34 witness: the extraction returned False and the function returned
\* True, the PDF-icon download having been moved into the client folder
C34_Witness ==
    /\ saver_extracted = "False"
    /\ saver_ret = "True"
    /\ IconClaimed

(***************************************************************************)
(* Claims about the keys of a detail-box record (checked under             *)
(* SpecExtract).                                                           *)
(***************************************************************************)
\* C35: no key of the record extract_all_detail_box_data builds contains a
\* space or a hyphen, whichever pass stored it.
C35_EveryKeyNormalized ==
    \A i \in 1..Len(detail_data) :
        \A c \in 1..Len(detail_data[i].key) :
            detail_data[i].key[c] \notin {" ", "-"}

(***************************************************************************)
(* Claims about the downloads a wait-and-claim step takes (checked under   *)
(* SpecClient).                                                            *)
(***************************************************************************)
\* the n-th download the browser wrote was requested by the n-th click the
\* portal took
TriggerOf(content) ==
    IF content \in 1..Len(triggers) THEN triggers[content]
    ELSE [client |-> 0, kind |-> "none", attempt |-> 0]

\* C36: every file a wait-and-claim step moved into the client folder was
\* requested by the click of that same step of that same client.
C36_ClaimedFileFromOwnTrigger ==
    \A i \in DOMAIN claimed_log :
        TriggerOf(claimed_log[i].content) = claimed_log[i].step

\* the wait of a wait-and-claim step has returned and the step has not yet
\* gone on
StepWaitReturned == cpc \in {"report_wait", "icon_wait"} /\ wpc = "ret"

\* C37: a wait that returns None has not missed a download: every finished
\* PDF its last poll saw in the directory was already finished when the
\* trigger of its step was clicked.
C37_FinishedAfterClickIsDetected ==
    (StepWaitReturned /\ downloaded_pdf = NoFile) =>
        current_files \subseteq dir_at_click

(***************************************************************************)
(* Claims about the folders of a batch (checked under SpecBatch).          *)
(***************************************************************************)
\* C38: the folders made for two list positions, which hold different
\* identifiers, are different folders.
C38_DistinctClientsDistinctFolders ==
    \A i, j \in DOMAIN client_folder :
        (/\ i # j
         /\ text_array[i] # text_array[j]
         /\ client_folder[i] # NoFolder
         /\ client_folder[j] # NoFolder) => client_folder[i] # client_folder[j]

====
